---- MODULE Spec2Model ----
(***************************************************************************)
(* State-machine model of the topolizer diagram editor: the scene (shapes, *)
(* sibling shape labels, connections, connection labels), the id counters, *)
(* the selection and overlay references, the confirmation modals, the      *)
(* browser key-value store and the exported topology file.                 *)
(***************************************************************************)
EXTENDS Integers, Sequences, FiniteSets, TLC

\* ---------------------------------------------------------------- bounds
MaxShapeId == 2
MaxConnId == 2
MaxBackRefs == 2
MaxSteps == 8

\* ------------------------------------------------------------- constants
TargetSize == 60
LabelAllowance == 10
DefaultGroupHeight == 70
RectWidth == 60
RectHeight == 40
CONSTRAINT_RADIUS == 60
DuplicateOffset == 50
LabelOffset == 20
ClearedConnectionCounter == 1
LineHalfLength == 50
LinePadding == 5
ArrowPadding == 10
dragThreshold == 3

\* palette drops: a basic rectangle at the left of the canvas, a Cisco icon
\* group at the right (element kind and canvas coordinates of the pointer)
Drops == {<<"rect", <<100, 100>>>>, <<"g", <<300, 100>>>>}
\* view box of the Cisco icon template
IconViewBox == <<100, 100>>
\* label texts a panel can supply
Texts == {"", "a"}

VARIABLES
    shapes,              \* .canvas-shape elements in document order
    shapeLabels,         \* sibling text[data-shape-id] elements
    conns,               \* .connection groups in document order
    labels,              \* .connection-label elements in document order
    shapeIdCounter,      \* appState.shapeIdCounter
    connectionIdCounter, \* appState.connectionIdCounter
    selectedShape,       \* appState.selectedShape
    currentShape,        \* shapeInteractionCircle currentShape
    overlaySourceShape,  \* shapeOverlay overlaySourceShape
    isWaitingForTarget,  \* shapeOverlay isWaitingForTarget
    selectedConnection,  \* connectionInteractions selectedConnection
    panelConnection,     \* shapeOverlay selectedConnection (panel target)
    isActive,            \* SelectionMode.isActive
    selectedShapes,      \* SelectionMode.selectedShapes
    deleteModal,         \* delete-shapes confirmation modal is open
    newModal,            \* new-topology confirmation modal is open
    store,               \* localStorage (topology and counters)
    shapePanelOpen,      \* the shape overlay panel is displayed
    file,                \* last exported topology file
    last,                \* observation of the last step taken
    steps,               \* number of user events of the session so far
    drag,                \* appState pointer fields (press, drag, endpoint, pan)
    sel,                 \* SelectionMode pointer fields (rectangle, group drag)
    jobs,                \* continuations of import().then(...) not yet run
    evt,                 \* observation of the last pointer event handled
    call,                \* a function under study: its name, arguments, result
    zoom                 \* appState.currentZoom, the zoom key of localStorage
                         \* and how far init has run

vars == <<shapes, shapeLabels, conns, labels, shapeIdCounter,
          connectionIdCounter, selectedShape, currentShape,
          overlaySourceShape, isWaitingForTarget, selectedConnection,
          panelConnection, isActive, selectedShapes, deleteModal, newModal,
          store, shapePanelOpen, file, last, steps, drag, sel, jobs, evt,
          call, zoom>>

\* ------------------------------------------------------------ utilities
Range(s) == {s[i] : i \in 1..Len(s)}
Abs(n) == IF n < 0 THEN -n ELSE n
Sgn(n) == IF n < 0 THEN -1 ELSE IF n > 0 THEN 1 ELSE 0
Max2(a, b) == IF a >= b THEN a ELSE b
Min2(a, b) == IF a <= b THEN a ELSE b
\* truncating division, as the sign-symmetric float arithmetic of the code
Quot(a, b) == Sgn(a) * Sgn(b) * (Abs(a) \div Abs(b))
MaxOf(S) == IF S = {} THEN 0 ELSE CHOOSE m \in S : \A n \in S : n <= m
Isqrt(n) == CHOOSE r \in 0..1000 : r * r <= n /\ (r + 1) * (r + 1) > n

\* an id is the prefix and the decimal suffix of `${prefix}-${n}`
NoId == <<"", 0>>
ShapeIdOf(n) == <<"shape", n>>
ConnectionIdOf(n) == <<"connection", n>>
\* shape.id.match(/shape-(\d+)/) and parseInt of the capture, 0 on no match
ShapeSuffix(id) == IF id[1] = "shape" THEN id[2] ELSE 0
ConnectionSuffix(id) == IF id[1] = "connection" THEN id[2] ELSE 0

\* ------------------------------------------------------------- elements
\* x, y: the positional attributes (x/y of a rect, the translation of a
\* transform); line: x1, y1, x2, y2 of a line element or of the .arrow-line of
\* an arrow group; transform: the element carries a transform attribute;
\* shapeType: its data-shape-type attribute
NoShape == [id |-> NoId, tag |-> "", x |-> 0, y |-> 0, inner |-> <<>>,
            layer |-> "", connections |-> <<>>, hasLabel |-> FALSE,
            line |-> <<>>, transform |-> FALSE, shapeType |-> ""]
\* the palette of composite icons: shape type and label of each template
CISCO_SHAPES == [router |-> "Router"]
IsCiscoType(shapeType) == shapeType \in DOMAIN CISCO_SHAPES
\* element references: null, an element in the document, or a removed element
NullRef == [st |-> "null", el |-> NoShape]
LiveRef(id) == [st |-> "live", el |-> [NoShape EXCEPT !.id = id]]
GoneRef(el) == [st |-> "gone", el |-> el]

NoConn == [id |-> NoId, source |-> NoId, target |-> NoId,
           x1 |-> 0, y1 |-> 0, x2 |-> 0, y2 |-> 0, dash |-> "",
           hit |-> FALSE, labelIds |-> {}]
NullConn == [st |-> "null", el |-> NoConn]
LiveConn(id) == [st |-> "live", el |-> [NoConn EXCEPT !.id = id]]
GoneConn(el) == [st |-> "gone", el |-> el]

\* document.getElementById: index of the first element with the id, 0 if none
IndexOfId(seq, id) ==
    IF \E i \in 1..Len(seq) : seq[i].id = id
    THEN CHOOSE i \in 1..Len(seq) :
             seq[i].id = id /\ \A j \in 1..(i - 1) : seq[j].id # id
    ELSE 0
HasId(seq, id) == IndexOfId(seq, id) # 0
RemoveAt(seq, i) == SubSeq(seq, 1, i - 1) \o SubSeq(seq, i + 1, Len(seq))
RemoveId(seq, id) ==
    IF HasId(seq, id) THEN RemoveAt(seq, IndexOfId(seq, id)) ELSE seq

\* the element a reference denotes
Deref(ref) ==
    IF ref.st = "live" THEN shapes[IndexOfId(shapes, ref.el.id)] ELSE ref.el

\* ------------------------------------------------------------- geometry
\* rendered icon size: the view box scaled to fit the target square
ScaledWidth == Quot(IconViewBox[1] * TargetSize, Max2(IconViewBox[1], IconViewBox[2]))
ScaledHeight == Quot(IconViewBox[2] * TargetSize, Max2(IconViewBox[1], IconViewBox[2]))

Box(x, y, w, h) ==
    [x |-> x, y |-> y, width |-> w, height |-> h,
     centerX |-> x + Quot(w, 2), centerY |-> y + Quot(h, 2)]

\* box of the segment l = <<x1, y1, x2, y2>> grown by padding on every side
LineBox(l, padding) ==
    LET minX == Min2(l[1], l[3])
        maxX == Max2(l[1], l[3])
        minY == Min2(l[2], l[4])
        maxY == Max2(l[2], l[4])
    IN  [x |-> minX - padding, y |-> minY - padding,
         width |-> maxX - minX + padding * 2,
         height |-> maxY - minY + padding * 2,
         centerX |-> Quot(l[1] + l[3], 2), centerY |-> Quot(l[2] + l[4], 2)]

\* bounding box from the element's own positional attributes: an arrow group
\* from its .arrow-line, any other group from its translation, a line from
\* its endpoints, a rect from x and y
getShapeBounds(el) ==
    IF el.tag = "g"
    THEN IF el.line # <<>> THEN LineBox(el.line, ArrowPadding)
         ELSE IF el.inner = <<>>
         THEN Box(el.x, el.y, TargetSize, DefaultGroupHeight)
         ELSE Box(el.x, el.y, ScaledWidth, ScaledHeight + LabelAllowance)
    ELSE IF el.tag = "line" THEN LineBox(el.line, LinePadding)
    ELSE Box(el.x, el.y, RectWidth, RectHeight)

\* findBoundaryIntersection taking every box for a square of its width
findBoundaryIntersectionSquare(bounds, dx, dy) ==
    LET hw == Quot(bounds.width, 2)
        hh == Quot(bounds.width, 2)
        cx == bounds.centerX
        cy == bounds.centerY
    IN  IF dx = 0 /\ dy = 0 THEN <<cx, cy>>
        ELSE IF hh * Abs(dx) <= hw * Abs(dy)
             THEN <<cx + Quot(dx * hh, Abs(dy)), cy + Sgn(dy) * hh>>
             ELSE <<cx + Sgn(dx) * hw, cy + Quot(dy * hw, Abs(dx))>>

\* exit point of the ray from the centre along (dx, dy): the centre for a
\* zero direction, otherwise the first edge crossed
findBoundaryIntersection(bounds, dx, dy) ==
    LET hw == Quot(bounds.width, 2)
        hh == Quot(bounds.height, 2)
        cx == bounds.centerX
        cy == bounds.centerY
    IN  IF dx = 0 /\ dy = 0 THEN <<cx, cy>>
        ELSE IF hh * Abs(dx) <= hw * Abs(dy)
             THEN <<cx + Quot(dx * hh, Abs(dy)), cy + Sgn(dy) * hh>>
             ELSE <<cx + Sgn(dx) * hw, cy + Quot(dy * hw, Abs(dx))>>

findClosestPoints(sb, tb) ==
    LET dx == tb.centerX - sb.centerX
        dy == tb.centerY - sb.centerY
    IN  [sourcePoint |-> findBoundaryIntersection(sb, dx, dy),
         targetPoint |-> findBoundaryIntersection(tb, -dx, -dy)]

\* point of the constraint circle around (cx, cy) towards (ox, oy);
\* atan2(0, 0) is 0, so coincident centres give the point to the right
OnCircle(cx, cy, ox, oy) ==
    LET dx == ox - cx
        dy == oy - cy
        len == Isqrt(dx * dx + dy * dy)
    IN  IF dx = 0 /\ dy = 0 THEN <<cx + CONSTRAINT_RADIUS, cy>>
        ELSE <<cx + Quot(dx * CONSTRAINT_RADIUS, len),
               cy + Quot(dy * CONSTRAINT_RADIUS, len)>>

\* ------------------------------------------------------- scene elements
LabelIdOf(connectionId, type) == <<"label", connectionId, type>>

\* the text element createConnectionLabel builds
createConnectionLabel(connectionId, text, x, y, type, shapeCenter, otherCenter) ==
    IF type \in {"source", "target"}
    THEN LET p == OnCircle(shapeCenter[1], shapeCenter[2],
                           otherCenter[1], otherCenter[2])
         IN  [id |-> LabelIdOf(connectionId, type), text |-> text,
              x |-> p[1], y |-> p[2], center |-> shapeCenter,
              radius |-> <<CONSTRAINT_RADIUS>>, draggable |-> "makeLabelDraggable"]
    ELSE [id |-> LabelIdOf(connectionId, type), text |-> text,
          x |-> x, y |-> y, center |-> <<>>, radius |-> <<>>,
          draggable |-> "makeLabelDraggable"]

\* dataset.connections += connectionId + ','
AddBackRef(el, connectionId) ==
    [el EXCEPT !.connections = Append(@, connectionId)]

\* dataset.connections.split(',').filter(id => id !== connectionId).join(',')
FilterBackRef(el, connectionId) ==
    [el EXCEPT !.connections = SelectSeq(@, LAMBDA c : c # connectionId)]

\* a scene is the four element lists of the document
Scene(sh, sl, co, la) ==
    [shapes |-> sh, shapeLabels |-> sl, conns |-> co, labels |-> la]
EmptyScene == Scene(<<>>, <<>>, <<>>, <<>>)
CurrentScene == Scene(shapes, shapeLabels, conns, labels)

\* apply f (a function on the elements of sh) to the first shape with the
\* id, if any
UpdateShapeById(sh, id, f) ==
    LET i == IndexOfId(sh, id)
    IN  IF i = 0 THEN sh ELSE [sh EXCEPT ![i] = f[sh[i]]]

\* appendChild to a layer: background shapes precede the shapes layer in
\* document order
AppendToLayer(sh, el) ==
    IF el.layer = "backgroundShapesLayer"
    THEN LET back == SelectSeq(sh, LAMBDA s : s.layer = "backgroundShapesLayer")
             front == SelectSeq(sh, LAMBDA s : s.layer # "backgroundShapesLayer")
         IN  back \o <<el>> \o front
    ELSE Append(sh, el)

\* ---------------------------------------------------- connection manager
\* createConnection on two elements; the source may be out of the document.
\* Yields the new scene and the (possibly detached) source element.
createConnection(sc, counter, sourceEl, sourceLive, targetEl) ==
    LET connectionId == ConnectionIdOf(counter + 1)
        sb == getShapeBounds(sourceEl)
        tb == getShapeBounds(targetEl)
        pts == findClosestPoints(sb, tb)
        sp == pts.sourcePoint
        tp == pts.targetPoint
        sc0 == <<sb.centerX, sb.centerY>>
        tc0 == <<tb.centerX, tb.centerY>>
        group == [id |-> connectionId, source |-> sourceEl.id,
                  target |-> targetEl.id, x1 |-> sp[1], y1 |-> sp[2],
                  x2 |-> tp[1], y2 |-> tp[2], dash |-> "", hit |-> TRUE,
                  labelIds |-> {"source", "target", "center"}]
        newLabels ==
            << createConnectionLabel(connectionId, "", sp[1], sp[2], "source", sc0, tc0),
               createConnectionLabel(connectionId, "", tp[1], tp[2], "target", tc0, sc0),
               createConnectionLabel(connectionId, "", Quot(sp[1] + tp[1], 2),
                                     Quot(sp[2] + tp[2], 2), "center", <<>>, <<>>) >>
        sh1 == IF sourceLive
               THEN UpdateShapeById(sc.shapes, sourceEl.id,
                        [e \in Range(sc.shapes) |-> AddBackRef(e, connectionId)])
               ELSE sc.shapes
        sh2 == UpdateShapeById(sh1, targetEl.id,
                   [e \in Range(sh1) |-> AddBackRef(e, connectionId)])
    IN  [scene |-> Scene(sh2, sc.shapeLabels, Append(sc.conns, group),
                         sc.labels \o newLabels),
         source |-> AddBackRef(sourceEl, connectionId),
         id |-> connectionId]

\* centre + radius * (cos a, sin a) for the angle a = atan2(v[2], v[1]);
\* atan2(0, 0) is 0, so a zero vector gives the point to the right
PointAtAngle(c, v, radius) ==
    LET len == Isqrt(v[1] * v[1] + v[2] * v[2])
    IN  IF v = <<0, 0>> THEN <<c[1] + radius, c[2]>>
        ELSE <<c[1] + Quot(v[1] * radius, len), c[2] + Quot(v[2] * radius, len)>>

\* an end label re-anchored by updateShapeConnections: the new centre is
\* stored, the label goes to the circle around it at the angle it had about
\* the centre stored before, or at the connection direction if none was
MovedEndLabel(l, center, otherCenter) ==
    LET radius == IF l.radius # <<>> THEN l.radius[1] ELSE CONSTRAINT_RADIUS
        v == IF l.center # <<>>
             THEN <<l.x - l.center[1], l.y - l.center[2]>>
             ELSE <<otherCenter[1] - center[1], otherCenter[2] - center[2]>>
        p == PointAtAngle(center, v, radius)
    IN  [l EXCEPT !.center = center, !.x = p[1], !.y = p[2]]

\* the body of the forEach of updateShapeConnections for one connection id:
\* nothing if the connection or one of its shapes is not in the document
updateConnection(sc, connectionId) ==
    LET i == IndexOfId(sc.conns, connectionId)
        group == sc.conns[i]
        si == IndexOfId(sc.shapes, group.source)
        ti == IndexOfId(sc.shapes, group.target)
        sb == getShapeBounds(sc.shapes[si])
        tb == getShapeBounds(sc.shapes[ti])
        pts == findClosestPoints(sb, tb)
        sp == pts.sourcePoint
        tp == pts.targetPoint
        sourceCenter == <<sb.x + Quot(sb.width, 2), sb.y + Quot(sb.height, 2)>>
        targetCenter == <<tb.x + Quot(tb.width, 2), tb.y + Quot(tb.height, 2)>>
        named == [t \in {"source", "target", "center"} |->
                     IF t \in group.labelIds
                     THEN IndexOfId(sc.labels, LabelIdOf(group.id, t)) ELSE 0]
        la == [j \in 1..Len(sc.labels) |->
                 IF j = named["source"]
                 THEN MovedEndLabel(sc.labels[j], sourceCenter, targetCenter)
                 ELSE IF j = named["target"]
                 THEN MovedEndLabel(sc.labels[j], targetCenter, sourceCenter)
                 ELSE IF j = named["center"]
                 THEN [sc.labels[j] EXCEPT !.x = Quot(sp[1] + tp[1], 2),
                                           !.y = Quot(sp[2] + tp[2], 2)]
                 ELSE sc.labels[j]]
    IN  IF i = 0 THEN sc
        ELSE IF si = 0 \/ ti = 0 THEN sc
        ELSE Scene(sc.shapes, sc.shapeLabels,
                   [sc.conns EXCEPT ![i] = [@ EXCEPT !.x1 = sp[1], !.y1 = sp[2],
                                                     !.x2 = tp[1], !.y2 = tp[2]]],
                   la)

RECURSIVE updateConnections(_, _)
updateConnections(sc, ids) ==
    IF ids = <<>> THEN sc
    ELSE updateConnections(updateConnection(sc, Head(ids)), Tail(ids))

\* updateShapeConnections: every connection named by the shape's
\* dataset.connections, in order
updateShapeConnections(sc, el) == updateConnections(sc, el.connections)

\* a backfill that stops at the first label id it sets
MigratedConnectionMutant(la, group) ==
    LET found == {t \in {"source", "target", "center"} :
                     t \notin group.labelIds /\ HasId(la, LabelIdOf(group.id, t))}
    IN  IF found = {} THEN group
        ELSE [group EXCEPT !.labelIds =
                 @ \cup {IF "source" \in found THEN "source"
                         ELSE IF "target" \in found THEN "target" ELSE "center"}]

\* migrateExistingConnections, one connection: left alone when it has both
\* the source and the target label id, otherwise given the id of every label
\* element found under the conventional id
MigratedConnection(la, group) ==
    IF {"source", "target"} \subseteq group.labelIds THEN group
    ELSE [group EXCEPT !.labelIds =
             @ \cup {t \in {"source", "target", "center"} :
                        HasId(la, LabelIdOf(group.id, t))}]

migrateExistingConnections(sc) ==
    Scene(sc.shapes, sc.shapeLabels,
          [i \in 1..Len(sc.conns) |-> MigratedConnection(sc.labels, sc.conns[i])],
          sc.labels)

\* migratedCount: the connections visited whose source label was found
migratedCount(sc) ==
    Cardinality({i \in 1..Len(sc.conns) :
        /\ ~({"source", "target"} \subseteq sc.conns[i].labelIds)
        /\ HasId(sc.labels, LabelIdOf(sc.conns[i].id, "source"))})

\* removal of the labels a connection group names by its label-id attributes
RemoveLabelsOf(la, group, types) ==
    LET idsToDrop == {LabelIdOf(group.id, t) : t \in (types \cap group.labelIds)}
        firstIdx == {IndexOfId(la, i) : i \in idsToDrop} \ {0}
    IN  [k \in 1..(Len(la) - Cardinality(firstIdx)) |->
            la[CHOOSE i \in 1..Len(la) :
                   /\ i \notin firstIdx
                   /\ Cardinality({j \in 1..i : j \notin firstIdx}) = k]]

\* deleteShapeConnections: walk the tokens of the shape's data-connections
RECURSIVE deleteShapeConnectionsFrom(_, _)
deleteShapeConnectionsFrom(sc, ids) ==
    IF ids = <<>> THEN sc
    ELSE LET i == IndexOfId(sc.conns, Head(ids))
         IN  IF i = 0 THEN deleteShapeConnectionsFrom(sc, Tail(ids))
             ELSE deleteShapeConnectionsFrom(
                      Scene(sc.shapes, sc.shapeLabels, RemoveAt(sc.conns, i),
                            RemoveLabelsOf(sc.labels, sc.conns[i],
                                           {"source", "target", "center"})),
                      Tail(ids))

deleteShapeConnections(sc, el) == deleteShapeConnectionsFrom(sc, el.connections)

\* deleteConnection of a connection group (in the document or not)
deleteConnection(sc, group) ==
    LET la == RemoveLabelsOf(sc.labels, group, {"source", "target"})
        sh1 == UpdateShapeById(sc.shapes, group.source,
                   [e \in Range(sc.shapes) |-> FilterBackRef(e, group.id)])
        sh2 == UpdateShapeById(sh1, group.target,
                   [e \in Range(sh1) |-> FilterBackRef(e, group.id)])
    IN  Scene(sh2, sc.shapeLabels, sc.conns, la)

\* cloneNode(true) with a fresh id and the position moved by the offset
duplicateShape(sc, counter, shapeId) ==
    LET i == IndexOfId(sc.shapes, shapeId)
        clone == [sc.shapes[i] EXCEPT !.id = ShapeIdOf(counter + 1),
                                      !.x = @ + DuplicateOffset,
                                      !.y = @ + DuplicateOffset,
                                      !.layer = "shapesLayer"]
    IN  IF i = 0 THEN sc
        ELSE Scene(Append(sc.shapes, clone), sc.shapeLabels, sc.conns, sc.labels)

\* clearCanvas removes the shapes, the connections and the connection labels
clearCanvasScene(sc) == Scene(<<>>, sc.shapeLabels, <<>>, <<>>)

\* ----------------------------------------------------------- persistence
\* label data of a label missing from the document
MissingLabelData == [text |-> "", x |-> 0, y |-> 0, center |-> <<>>, radius |-> <<>>]

\* label data saveTopology writes for one label of a connection
StoredLabelData(sc, group, type) ==
    LET i == IF type \in group.labelIds
             THEN IndexOfId(sc.labels, LabelIdOf(group.id, type)) ELSE 0
    IN  IF i = 0 THEN MissingLabelData
        ELSE IF type = "center"
             THEN [text |-> sc.labels[i].text, x |-> sc.labels[i].x,
                   y |-> sc.labels[i].y, center |-> <<>>, radius |-> <<>>]
             ELSE [text |-> sc.labels[i].text, x |-> sc.labels[i].x,
                   y |-> sc.labels[i].y, center |-> sc.labels[i].center,
                   radius |-> IF sc.labels[i].radius = <<>>
                              THEN <<CONSTRAINT_RADIUS>>
                              ELSE sc.labels[i].radius]

\* label data exportTopology writes: no constraint circle
ExportedLabelData(sc, group, type) ==
    LET i == IF type \in group.labelIds
             THEN IndexOfId(sc.labels, LabelIdOf(group.id, type)) ELSE 0
    IN  IF i = 0 THEN MissingLabelData
        ELSE [text |-> sc.labels[i].text, x |-> sc.labels[i].x,
              y |-> sc.labels[i].y, center |-> <<>>, radius |-> <<>>]

ShapeData(el, layer) ==
    [id |-> el.id, tagName |-> el.tag, layer |-> layer, x |-> el.x,
     y |-> el.y, connections |-> el.connections, hasLabel |-> el.hasLabel,
     innerHTML |-> IF el.tag = "g" THEN el.inner ELSE <<>>,
     line |-> el.line, transform |-> el.transform, shapeType |-> el.shapeType]

ConnectionData(group, sourceLabel, targetLabel, centerLabel) ==
    [id |-> group.id, sourceId |-> group.source, targetId |-> group.target,
     x1 |-> group.x1, y1 |-> group.y1, x2 |-> group.x2, y2 |-> group.y2,
     strokeDasharray |-> group.dash, sourceLabel |-> sourceLabel,
     targetLabel |-> targetLabel, centerLabel |-> centerLabel]

\* the topology document saveTopology puts under the topology key
saveTopology(sc) ==
    [shapes |-> [i \in 1..Len(sc.shapes) |->
                    ShapeData(sc.shapes[i], sc.shapes[i].layer)],
     connections |-> [i \in 1..Len(sc.conns) |->
                    ConnectionData(sc.conns[i],
                        StoredLabelData(sc, sc.conns[i], "source"),
                        StoredLabelData(sc, sc.conns[i], "target"),
                        StoredLabelData(sc, sc.conns[i], "center"))]]

\* the topology document exportTopology downloads: shapes carry no layer
exportTopology(sc) ==
    [shapes |-> [i \in 1..Len(sc.shapes) |-> ShapeData(sc.shapes[i], "")],
     connections |-> [i \in 1..Len(sc.conns) |->
                    ConnectionData(sc.conns[i],
                        ExportedLabelData(sc, sc.conns[i], "source"),
                        ExportedLabelData(sc, sc.conns[i], "target"),
                        ExportedLabelData(sc, sc.conns[i], "center"))]]

NoTopology == [shapes |-> <<>>, connections |-> <<>>]
EmptyStore == [saved |-> FALSE, topology |-> NoTopology,
               shapeCounter |-> 0, connectionCounter |-> 0]

\* saveAppState: topology and both counters (zoom and scroll carry no scene)
saveAppState(sc, shapeCounter, connectionCounter) ==
    [saved |-> TRUE, topology |-> saveTopology(sc),
     shapeCounter |-> shapeCounter, connectionCounter |-> connectionCounter]

\* recreateCiscoShapeContent: the icon and the label of the template
recreateCiscoShapeContent(shapeType) == <<"icon", CISCO_SHAPES[shapeType]>>

\* createShapeElement: a group with empty markup is rebuilt from the template
\* of its shape type, if CISCO_SHAPES has one
createShapeElement(d) ==
    [id |-> d.id, tag |-> d.tagName, x |-> d.x, y |-> d.y,
     inner |-> IF d.tagName = "g"
               THEN (IF d.innerHTML # <<>> THEN d.innerHTML
                     ELSE IF IsCiscoType(d.shapeType)
                          THEN recreateCiscoShapeContent(d.shapeType)
                          ELSE <<>>)
               ELSE <<>>,
     layer |-> IF d.layer = "" THEN "shapesLayer" ELSE d.layer,
     connections |-> d.connections, hasLabel |-> d.hasLabel,
     line |-> IF d.tagName = "g" /\ d.innerHTML = <<>> THEN <<>> ELSE d.line,
     transform |-> d.transform, shapeType |-> d.shapeType]

RECURSIVE restoreShapes(_, _)
restoreShapes(sh, data) ==
    IF data = <<>> THEN sh
    ELSE restoreShapes(AppendToLayer(sh, createShapeElement(Head(data))), Tail(data))

\* createConnectionLabelElement: position and text, default radius
createConnectionLabelElement(connectionId, d, type) ==
    [id |-> LabelIdOf(connectionId, type), text |-> d.text, x |-> d.x,
     y |-> d.y, center |-> <<>>, radius |-> <<CONSTRAINT_RADIUS>>,
     draggable |-> "makeLabelDraggableInline"]

\* the constraint circle restoreConnections gives an end label: none when
\* the shape is not found, the stored centre or else the shape's centre
RestoredEndLabel(sh, shapeId, connectionId, d, type) ==
    LET l == createConnectionLabelElement(connectionId, d, type)
        i == IndexOfId(sh, shapeId)
        b == getShapeBounds(sh[i])
    IN  IF i = 0 THEN l
        ELSE [l EXCEPT !.center = IF d.center # <<>> THEN d.center
                                  ELSE <<b.centerX, b.centerY>>,
                       !.radius = IF d.radius # <<>> THEN d.radius ELSE @]

RECURSIVE restoreConnections(_, _)
restoreConnections(sc, data) ==
    IF data = <<>> THEN sc
    ELSE LET d == Head(data)
             group == [id |-> d.id, source |-> d.sourceId, target |-> d.targetId,
                       x1 |-> d.x1, y1 |-> d.y1, x2 |-> d.x2, y2 |-> d.y2,
                       dash |-> d.strokeDasharray, hit |-> TRUE,
                       labelIds |-> {"source", "target", "center"}]
             newLabels ==
                 << RestoredEndLabel(sc.shapes, d.sourceId, d.id, d.sourceLabel, "source"),
                    RestoredEndLabel(sc.shapes, d.targetId, d.id, d.targetLabel, "target"),
                    createConnectionLabelElement(d.id, d.centerLabel, "center") >>
             sh1 == UpdateShapeById(sc.shapes, d.sourceId,
                        [e \in Range(sc.shapes) |-> AddBackRef(e, d.id)])
             sh2 == UpdateShapeById(sh1, d.targetId,
                        [e \in Range(sh1) |-> AddBackRef(e, d.id)])
         IN  restoreConnections(
                 Scene(sh2, sc.shapeLabels, Append(sc.conns, group),
                       sc.labels \o newLabels),
                 Tail(data))

\* one phase of a restore: every shape, or every connection, of the document
RestorePhase(sc, topology, phase) ==
    IF phase = "shapes"
    THEN Scene(restoreShapes(sc.shapes, topology.shapes), sc.shapeLabels,
               sc.conns, sc.labels)
    ELSE restoreConnections(sc, topology.connections)

\* restoreAppState restores the shapes and then the connections
RestoreOrderMutant == <<"connections", "shapes">>
RestoreOrder == <<"shapes", "connections">>

\* a page load that leaves the id counter at its initial value
RestoredCounterMutant(st, saved) == 0
\* the id counter after restoreAppState: the saved one, if anything was saved
RestoredCounter(st, saved) == IF st.saved THEN saved ELSE 0

\* the scene restoreAppState builds on the freshly loaded page
RestoredScene(topology) ==
    RestorePhase(RestorePhase(EmptyScene, topology, RestoreOrder[1]),
                 topology, RestoreOrder[2])

\* ---------------------------------------------------------------- import
\* the element loadTopology creates for a shape: attributes only, always in
\* the shapes layer
ImportedShape(d) ==
    [id |-> d.id, tag |-> d.tagName, x |-> d.x, y |-> d.y, inner |-> <<>>,
     layer |-> "shapesLayer", connections |-> d.connections,
     hasLabel |-> d.hasLabel,
     line |-> IF d.tagName = "g" THEN <<>> ELSE d.line,
     transform |-> d.transform, shapeType |-> d.shapeType]

\* createLabelElement: position and text only
createLabelElement(connectionId, d, type) ==
    [id |-> LabelIdOf(connectionId, type), text |-> d.text, x |-> d.x,
     y |-> d.y, center |-> <<>>, radius |-> <<>>, draggable |-> ""]

RECURSIVE ImportConnections(_, _)
ImportConnections(sc, data) ==
    IF data = <<>> THEN sc
    ELSE LET d == Head(data)
             group == [id |-> d.id, source |-> d.sourceId, target |-> d.targetId,
                       x1 |-> d.x1, y1 |-> d.y1, x2 |-> d.x2, y2 |-> d.y2,
                       dash |-> "", hit |-> FALSE,
                       labelIds |-> {"source", "target", "center"}]
             newLabels == << createLabelElement(d.id, d.sourceLabel, "source"),
                             createLabelElement(d.id, d.targetLabel, "target"),
                             createLabelElement(d.id, d.centerLabel, "center") >>
             sh1 == UpdateShapeById(sc.shapes, d.sourceId,
                        [e \in Range(sc.shapes) |-> AddBackRef(e, d.id)])
             sh2 == UpdateShapeById(sh1, d.targetId,
                        [e \in Range(sh1) |-> AddBackRef(e, d.id)])
         IN  ImportConnections(
                 Scene(sh2, sc.shapeLabels, Append(sc.conns, group),
                       sc.labels \o newLabels),
                 Tail(data))

ImportPhase(sc, topology, phase) ==
    IF phase = "shapes"
    THEN Scene(sc.shapes \o [i \in 1..Len(topology.shapes) |->
                                ImportedShape(topology.shapes[i])],
               sc.shapeLabels, sc.conns, sc.labels)
    ELSE ImportConnections(sc, topology.connections)

\* loadTopology restores the shapes and then the connections
LoadOrder == <<"shapes", "connections">>

\* the scene loadTopology builds after clearing the canvas
LoadedScene(sc, topology) ==
    ImportPhase(ImportPhase(clearCanvasScene(sc), topology, LoadOrder[1]),
                topology, LoadOrder[2])

MaxShapeSuffix(topology) ==
    MaxOf({ShapeSuffix(topology.shapes[i].id) : i \in 1..Len(topology.shapes)})
MaxConnectionSuffix(topology) ==
    MaxOf({ConnectionSuffix(topology.connections[i].id) :
               i \in 1..Len(topology.connections)})

\* loadTopology without the counter fix-up
BumpedCounterMutant(counter, maxId) == counter
\* the counter fix-up at the end of loadTopology
BumpedCounter(counter, maxId) ==
    IF maxId > 0 /\ maxId >= counter THEN maxId + 1 ELSE counter

\* ------------------------------------------------------------ references
\* a reference to an element removed from the document keeps the element
Detach(ref, removedIds, sh) ==
    IF ref.st = "live" /\ ref.el.id \in removedIds
    THEN GoneRef(sh[IndexOfId(sh, ref.el.id)])
    ELSE ref
DetachConn(ref, removedIds, co) ==
    IF ref.st = "live" /\ ref.el.id \in removedIds
    THEN GoneConn(co[IndexOfId(co, ref.el.id)])
    ELSE ref
\* a write to a removed element is seen through every reference to it
Rewrite(ref, oldEl, newEl) ==
    IF ref = GoneRef(oldEl) THEN GoneRef(newEl) ELSE ref

IdsOf(seq) == {seq[i].id : i \in 1..Len(seq)}

\* what the last step did: the handler, the warning it showed, the
\* connections it removed
Observed == {"targetClick", "deleteShape", "confirmDelete", "duplicate",
             "clearCanvas", "confirmNew", "import", "reload",
             "importInvalid"}
Step(op) == [op |-> IF op \in Observed THEN op ELSE "other",
             alert |-> "", removed |-> {}]

Idle == ~deleteModal /\ ~newModal

\* appState after reset(): nothing pressed, dragged or panned
NoDrag == [isMouseDown |-> FALSE, isDraggingShape |-> FALSE,
           isDraggingEndpoint |-> FALSE, draggingEndpointType |-> "",
           isPanningCanvas |-> FALSE, dragStart |-> <<0, 0>>,
           dragOffset |-> <<0, 0>>,
           label |-> NoId, shapeCenter |-> <<>>, constraintRadius |-> 0]
\* SelectionMode as constructed: no rectangle, no group drag
NoSel == [isSelecting |-> FALSE, isDraggingGroup |-> FALSE,
          startPoint |-> <<>>, dragStartPoint |-> <<>>,
          initialShapePositions |-> <<>>]
\* op: the pointer event; pt: its position; saves: the saveAppState calls its
\* handlers made; groupStart: the bounds the shapes of the group drag in
\* progress had when it started; changed: the handlers changed the scene;
\* pressed: the mouse button is down
NoEvent == [op |-> "", pt |-> <<0, 0>>, saves |-> 0, groupStart |-> <<>>,
            changed |-> FALSE, pressed |-> FALSE]

\* no function has been called on its own
NoCall == [fn |-> "", args |-> <<>>, result |-> <<>>]

\* zoom levels count the zoom steps away from ZOOM_CONFIG.DEFAULT
ZoomDefault == 0
\* a page whose init has run on a store without a zoom key: resetZoom set
\* the default zoom and updateZoom saved it (the handlers of the document
\* are not followed for the zoom key, which they rewrite with the same zoom)
ReadyZoom == [currentZoom |-> ZoomDefault, saved |-> <<ZoomDefault>>,
              pc |-> "ready", previous |-> <<>>]

\* one more user event (or page load) of a session of at most MaxSteps
Count == steps < MaxSteps /\ steps' = steps + 1
\* an event of the click and key handlers: they leave the pointer state alone
Tick == Count /\ UNCHANGED <<drag, sel, jobs, evt, call, zoom>>

\* ------------------------------------------------------------------ Init
Init ==
    /\ shapes = <<>>
    /\ shapeLabels = <<>>
    /\ conns = <<>>
    /\ labels = <<>>
    /\ shapeIdCounter = 0
    /\ connectionIdCounter = 0
    /\ selectedShape = NullRef
    /\ currentShape = NullRef
    /\ overlaySourceShape = NullRef
    /\ isWaitingForTarget = FALSE
    /\ selectedConnection = NullConn
    /\ panelConnection = NullConn
    /\ isActive = FALSE
    /\ selectedShapes = {}
    /\ deleteModal = FALSE
    /\ newModal = FALSE
    /\ store = EmptyStore
    /\ shapePanelOpen = FALSE
    /\ file = NoTopology
    /\ last = Step("init")
    /\ steps = 0
    /\ drag = NoDrag
    /\ sel = NoSel
    /\ jobs = <<>>
    /\ call = NoCall
    /\ zoom = ReadyZoom
    /\ evt = NoEvent

\* assignment of a scene to the four element variables
SetScene(sc) ==
    /\ shapes' = sc.shapes
    /\ shapeLabels' = sc.shapeLabels
    /\ conns' = sc.conns
    /\ labels' = sc.labels

\* saveAppState at the end of a handler that leaves scene sc and the counters
SaveAs(sc, shapeCounter, connectionCounter) ==
    store' = saveAppState(sc, shapeCounter, connectionCounter)
\* saveAppState by a handler that changed neither the scene nor the counters
SaveSame == SaveAs(CurrentScene, shapeIdCounter, connectionIdCounter)

\* ------------------------------------------------------------ shape drop
\* createShape / createCiscoShape / createLineShape / createArrowShape: the
\* element centred on the drop point
createShape(kind, pt, counter) ==
    LET new == [NoShape EXCEPT !.id = ShapeIdOf(counter + 1),
                               !.layer = "shapesLayer"]
        segment == <<pt[1] - LineHalfLength, pt[2],
                     pt[1] + LineHalfLength, pt[2]>>
    IN  IF kind = "g"
        THEN [new EXCEPT !.tag = "g", !.transform = TRUE,
                         !.shapeType = "router",
                         !.x = pt[1] - Quot(ScaledWidth, 2),
                         !.y = pt[2] - Quot(ScaledHeight, 2),
                         !.inner = recreateCiscoShapeContent("router")]
        ELSE IF kind = "line"
        THEN [new EXCEPT !.tag = "line", !.shapeType = "line",
                         !.line = segment]
        ELSE IF kind = "arrow"
        THEN [new EXCEPT !.tag = "g", !.shapeType = "arrow",
                         !.inner = <<"arrow">>, !.line = segment]
        ELSE [new EXCEPT !.tag = "rect", !.shapeType = "rectangle",
                         !.x = pt[1] - Quot(RectWidth, 2),
                         !.y = pt[2] - Quot(RectHeight, 2)]

\* drop of a palette item on the canvas
DropShape(kind, pt) ==
    /\ Tick
    /\ Idle
    /\ shapeIdCounter < MaxShapeId
    /\ shapes' = Append(shapes, createShape(kind, pt, shapeIdCounter))
    /\ shapeIdCounter' = shapeIdCounter + 1
    /\ UNCHANGED <<shapeLabels, conns, labels, connectionIdCounter>>
    /\ SaveAs(Scene(shapes', shapeLabels, conns, labels), shapeIdCounter + 1,
              connectionIdCounter)
    /\ last' = Step("drop")
    /\ UNCHANGED <<selectedShape, currentShape, overlaySourceShape,
                   isWaitingForTarget, selectedConnection, panelConnection,
                   isActive, selectedShapes, deleteModal, newModal,
                   shapePanelOpen, file>>

\* ------------------------------------------------------------ shape press
\* a group with no child paints nothing, so the pointer cannot hit it
Hittable(el) == el.tag # "g" \/ el.inner # <<>>
\* mousedown, mouseup and click on the i-th shape: selection (or the
\* selection-mode pick and group-drag end), then the click handler, which
\* routes to handleTargetShapeClick while a connection target is awaited
ShapePress(i) ==
    LET el == shapes[i]
        ref == LiveRef(el.id)
        isSelf == overlaySourceShape.st = "live" /\ overlaySourceShape.el.id = el.id
        src == Deref(overlaySourceShape)
        made == createConnection(CurrentScene, connectionIdCounter, src,
                                 overlaySourceShape.st = "live", el)
    IN
    /\ Tick
    /\ Idle
    /\ i \in 1..Len(shapes)
    /\ Hittable(el)
    /\ selectedShapes' = IF isActive /\ el.id \notin selectedShapes
                         THEN {el.id} ELSE selectedShapes
    /\ IF isWaitingForTarget /\ overlaySourceShape.st # "null"
       THEN IF isSelf
            THEN \* handleTargetShapeClick: warning, nothing else
                 /\ last' = [Step("targetClick") EXCEPT
                                !.alert = "Cannot connect a shape to itself"]
                 /\ selectedShape' = IF isActive THEN selectedShape ELSE ref
                 /\ currentShape' = IF isActive THEN currentShape ELSE ref
                 /\ UNCHANGED <<shapes, shapeLabels, conns, labels,
                                connectionIdCounter, overlaySourceShape,
                                isWaitingForTarget, panelConnection,
                                shapePanelOpen>>
                 /\ IF isActive THEN SaveSame ELSE UNCHANGED store
            ELSE \* finishConnectionWithTarget
                 /\ connectionIdCounter < MaxConnId
                 /\ SetScene(made.scene)
                 /\ connectionIdCounter' = connectionIdCounter + 1
                 /\ selectedShape' = IF isActive
                                     THEN Rewrite(selectedShape, src, made.source)
                                     ELSE ref
                 /\ currentShape' = IF isActive
                                    THEN Rewrite(currentShape, src, made.source)
                                    ELSE ref
                 /\ overlaySourceShape' = NullRef
                 /\ isWaitingForTarget' = FALSE
                 /\ shapePanelOpen' = FALSE
                 /\ panelConnection' = LiveConn(made.id)
                 /\ SaveAs(made.scene, shapeIdCounter, connectionIdCounter + 1)
                 /\ last' = Step("targetClick")
       ELSE \* plain selection
            /\ selectedShape' = IF isWaitingForTarget /\ isActive
                                THEN selectedShape ELSE ref
            /\ currentShape' = IF isWaitingForTarget /\ isActive
                               THEN currentShape ELSE ref
            /\ UNCHANGED <<shapes, shapeLabels, conns, labels,
                           connectionIdCounter, overlaySourceShape,
                           isWaitingForTarget, panelConnection, shapePanelOpen>>
            /\ IF isActive THEN SaveSame ELSE UNCHANGED store
            /\ last' = Step("select")
    /\ UNCHANGED <<shapeIdCounter, selectedConnection, isActive, deleteModal,
                   newModal, file>>

\* hideShapePanel
HideShapePanel ==
    /\ overlaySourceShape' = NullRef
    /\ isWaitingForTarget' = FALSE
    /\ shapePanelOpen' = FALSE

\* ----------------------------------------------------- interaction circle
\* click on the left half: showOverlayPanel(currentShape)
LeftHalfClick ==
    /\ Tick
    /\ Idle
    /\ currentShape.st # "null"
    /\ ~isWaitingForTarget
    /\ overlaySourceShape' = currentShape
    /\ shapePanelOpen' = TRUE
    /\ last' = Step("showOverlayPanel")
    /\ UNCHANGED <<shapes, shapeLabels, conns, labels, shapeIdCounter,
                   connectionIdCounter, selectedShape, currentShape,
                   isWaitingForTarget, selectedConnection, panelConnection,
                   isActive, selectedShapes, deleteModal, newModal, store, file>>

\* click on the right half: startConnectionFromShape(currentShape), then
\* hideInteractionCircle
RightHalfClick ==
    /\ Tick
    /\ Idle
    /\ currentShape.st # "null"
    /\ overlaySourceShape' = currentShape
    /\ isWaitingForTarget' = TRUE
    /\ currentShape' = NullRef
    /\ last' = Step("startConnectionFromShape")
    /\ UNCHANGED <<shapes, shapeLabels, conns, labels, shapeIdCounter,
                   connectionIdCounter, selectedShape, selectedConnection,
                   panelConnection, isActive, selectedShapes, deleteModal,
                   newModal, store, shapePanelOpen, file>>

\* the "connect" button of the shape panel: startConnectionMode
PanelStartConnection ==
    /\ Tick
    /\ Idle
    /\ shapePanelOpen
    /\ overlaySourceShape.st # "null"
    /\ ~isWaitingForTarget
    /\ isWaitingForTarget' = TRUE
    /\ last' = Step("startConnectionMode")
    /\ UNCHANGED <<shapes, shapeLabels, conns, labels, shapeIdCounter,
                   connectionIdCounter, selectedShape, currentShape,
                   overlaySourceShape, selectedConnection, panelConnection,
                   isActive, selectedShapes, deleteModal, newModal, store,
                   shapePanelOpen, file>>

\* rectanglesIntersect of the selection rectangle and a shape's box
rectanglesIntersect(r, b) ==
    ~(r[1] + r[3] < b.x \/ b.x + b.width < r[1] \/
      r[2] + r[4] < b.y \/ b.y + b.height < r[2])

\* getBBox: the painted extents in the element's own coordinates, without its
\* transform: a rect and a line from their attributes; the children of an
\* icon group and of an arrow group fill the box the bounds give them; a
\* group without children paints nothing
getBBox(el) ==
    IF el.tag = "g"
    THEN IF el.line # <<>> THEN LineBox(el.line, ArrowPadding)
         ELSE IF el.inner = <<>> THEN Box(0, 0, 0, 0)
         ELSE Box(0, 0, ScaledWidth, ScaledHeight + LabelAllowance)
    ELSE IF el.tag = "line" THEN LineBox(el.line, 0)
    ELSE Box(el.x, el.y, RectWidth, RectHeight)

\* the box highlightIntersectingShapes tests: the size of getBBox, at the
\* translation of the transform if the element has one
SelectionBox(el) ==
    LET bbox == getBBox(el)
    IN  IF el.transform THEN Box(el.x, el.y, bbox.width, bbox.height) ELSE bbox

\* highlightIntersectingShapes: the selection cleared, then every
\* .canvas-shape whose box meets the rectangle r = <<x, y, width, height>>
highlightIntersectingShapes(sh, r) ==
    {sh[j].id : j \in {k \in 1..Len(sh) :
                          rectanglesIntersect(r, SelectionBox(sh[k]))}}

\* selection rectangles the pointer can draw: none (a plain click), one
\* around the left drop point, one around the whole canvas
SelectionRects == {<<0, 0, 0, 0>>, <<50, 50, 100, 100>>, <<0, 0, 500, 500>>}

\* press, optional rubber band, release and click on the canvas background:
\* the selection-mode rectangle, the click-outside handler of the circle,
\* the canvas click (deselect) and the document click (close panels)
CanvasClick(r) ==
    LET deselect == selectedShape.st # "null" \/ selectedConnection.st = "live"
        closeShape == (deselect /\ selectedShape.st # "null")
                      \/ (shapePanelOpen /\ ~isWaitingForTarget)
    IN
    /\ Tick
    /\ Idle
    /\ r \in SelectionRects
    /\ isActive \/ r = <<0, 0, 0, 0>>
    /\ selectedShapes' =
          IF isActive
          THEN IF r = <<0, 0, 0, 0>> THEN {}
               ELSE highlightIntersectingShapes(shapes, r)
          ELSE selectedShapes
    /\ currentShape' = NullRef
    /\ selectedShape' = IF deselect THEN NullRef ELSE selectedShape
    /\ selectedConnection' = IF deselect THEN NullConn ELSE selectedConnection
    /\ IF closeShape THEN HideShapePanel
       ELSE UNCHANGED <<overlaySourceShape, isWaitingForTarget, shapePanelOpen>>
    /\ panelConnection' = NullConn
    /\ last' = Step("canvasClick")
    /\ UNCHANGED <<shapes, shapeLabels, conns, labels, shapeIdCounter,
                   connectionIdCounter, isActive, deleteModal, newModal,
                   store, file>>

\* SelectionMode.toggle
ToggleSelectionMode ==
    /\ Tick
    /\ Idle
    /\ isActive' = ~isActive
    /\ selectedShapes' = IF isActive THEN {} ELSE selectedShapes
    /\ last' = Step("toggle")
    /\ UNCHANGED <<shapes, shapeLabels, conns, labels, shapeIdCounter,
                   connectionIdCounter, selectedShape, currentShape,
                   overlaySourceShape, isWaitingForTarget, selectedConnection,
                   panelConnection, deleteModal, newModal, store,
                   shapePanelOpen, file>>

\* ------------------------------------------------------------ shape panel
\* the "duplicate" button: duplicateShape(overlaySourceShape.id), then the
\* panel is hidden
PanelDuplicate ==
    LET found == HasId(shapes, overlaySourceShape.el.id)
        sc == duplicateShape(CurrentScene, shapeIdCounter, overlaySourceShape.el.id)
    IN
    /\ Tick
    /\ Idle
    /\ shapePanelOpen
    /\ overlaySourceShape.st # "null"
    /\ found => shapeIdCounter < MaxShapeId
    /\ SetScene(sc)
    /\ shapeIdCounter' = IF found THEN shapeIdCounter + 1 ELSE shapeIdCounter
    /\ IF found THEN SaveAs(sc, shapeIdCounter + 1, connectionIdCounter)
       ELSE UNCHANGED store
    /\ HideShapePanel
    /\ last' = Step("duplicate")
    /\ UNCHANGED <<connectionIdCounter, selectedShape, currentShape,
                   selectedConnection, panelConnection, isActive,
                   selectedShapes, deleteModal, newModal, file>>

\* moveShapeToFront / moveShapeToBack: appendChild to the target layer
moveShapeTo(sh, shapeId, layer) ==
    LET i == IndexOfId(sh, shapeId)
    IN  IF i = 0 THEN sh
        ELSE AppendToLayer(RemoveAt(sh, i), [sh[i] EXCEPT !.layer = layer])

Layers == {"shapesLayer", "backgroundShapesLayer"}

\* the "move to front" and "move to back" buttons
PanelMove(layer) ==
    LET found == HasId(shapes, overlaySourceShape.el.id)
        sh == moveShapeTo(shapes, overlaySourceShape.el.id, layer)
    IN
    /\ Tick
    /\ Idle
    /\ shapePanelOpen
    /\ overlaySourceShape.st # "null"
    /\ shapes' = sh
    /\ IF found THEN SaveAs(Scene(sh, shapeLabels, conns, labels),
                            shapeIdCounter, connectionIdCounter)
       ELSE UNCHANGED store
    /\ last' = Step("move")
    /\ UNCHANGED <<shapeLabels, conns, labels, shapeIdCounter,
                   connectionIdCounter, selectedShape, currentShape,
                   overlaySourceShape, isWaitingForTarget, selectedConnection,
                   panelConnection, isActive, selectedShapes, deleteModal,
                   newModal, shapePanelOpen, file>>

\* index of the sibling label of a shape in the shape's own layer, 0 if none
SiblingLabelIndex(sl, el) ==
    IF \E i \in 1..Len(sl) : sl[i].shapeId = el.id /\ sl[i].layer = el.layer
    THEN CHOOSE i \in 1..Len(sl) :
             /\ sl[i].shapeId = el.id /\ sl[i].layer = el.layer
             /\ \A j \in 1..(i - 1) : ~(sl[j].shapeId = el.id /\ sl[j].layer = el.layer)
    ELSE 0

\* updateShapeLabel and updateShapeLabelPosition on a basic shape of the
\* document, with the panel's position select at "below": the sibling label
\* is created, retexted or removed
updateShapeLabel(sc, el, text) ==
    LET i == SiblingLabelIndex(sc.shapeLabels, el)
        b == getShapeBounds(el)
        placed == [shapeId |-> el.id, text |-> text,
                   x |-> el.x + Quot(b.width, 2),
                   y |-> el.y + b.height + LabelOffset, layer |-> el.layer,
                   position |-> "below"]
    IN  IF i = 0
        THEN IF text = "" THEN sc
             ELSE Scene(UpdateShapeById(sc.shapes, el.id,
                            [e \in Range(sc.shapes) |-> [e EXCEPT !.hasLabel = TRUE]]),
                        Append(sc.shapeLabels, placed), sc.conns, sc.labels)
        ELSE IF text = ""
             THEN Scene(sc.shapes, RemoveAt(sc.shapeLabels, i), sc.conns, sc.labels)
             ELSE Scene(sc.shapes, [sc.shapeLabels EXCEPT ![i] = placed],
                        sc.conns, sc.labels)

\* the caption of a group shape lives in the group's own markup
CaptionedGroup(el, text) ==
    IF el.inner # <<>> /\ el.inner[1] = "icon"
    THEN [el EXCEPT !.inner = <<"icon", text>>]
    ELSE IF text = "" THEN el
         ELSE [el EXCEPT !.inner = <<"text", text>>]

\* the "apply" button of the shape panel: applyShapeChanges.  A basic shape
\* that left the document has no parent: the handler throws before saving.
PanelApply(text) ==
    LET ref == overlaySourceShape
        el == Deref(ref)
        sc == IF el.tag = "g"
              THEN IF ref.st = "live"
                   THEN Scene(UpdateShapeById(shapes, el.id,
                                  [e \in Range(shapes) |-> CaptionedGroup(e, text)]),
                              shapeLabels, conns, labels)
                   ELSE CurrentScene
              ELSE updateShapeLabel(CurrentScene, el, text)
        written == CaptionedGroup(el, text)
    IN
    /\ Tick
    /\ Idle
    /\ shapePanelOpen
    /\ ref.st # "null"
    /\ text \in Texts
    /\ IF ref.st = "gone" /\ el.tag # "g"
       THEN /\ last' = Step("applyShapeFailed")
            /\ UNCHANGED <<shapes, shapeLabels, conns, labels, store,
                           overlaySourceShape, isWaitingForTarget,
                           shapePanelOpen, selectedShape, currentShape>>
       ELSE /\ SetScene(sc)
            /\ SaveAs(sc, shapeIdCounter, connectionIdCounter)
            /\ HideShapePanel
            /\ selectedShape' = IF ref.st = "gone"
                                THEN Rewrite(selectedShape, el, written)
                                ELSE selectedShape
            /\ currentShape' = IF ref.st = "gone"
                               THEN Rewrite(currentShape, el, written)
                               ELSE currentShape
            /\ last' = Step("applyShape")
    /\ UNCHANGED <<shapeIdCounter, connectionIdCounter, selectedConnection,
                   panelConnection, isActive, selectedShapes, deleteModal,
                   newModal, file>>

\* the close button of the shape panel, or Escape while it is open
PanelClose ==
    /\ Tick
    /\ Idle
    /\ shapePanelOpen
    /\ HideShapePanel
    /\ last' = Step("hideShapePanel")
    /\ UNCHANGED <<shapes, shapeLabels, conns, labels, shapeIdCounter,
                   connectionIdCounter, selectedShape, currentShape,
                   selectedConnection, panelConnection, isActive,
                   selectedShapes, deleteModal, newModal, store, file>>

\* ------------------------------------------------------- connection panel
\* the connection element a reference denotes
DerefConn(ref) ==
    IF ref.st = "live" THEN conns[IndexOfId(conns, ref.el.id)] ELSE ref.el

\* click on the hit target of the j-th connection:
\* selectConnectionAndShowOverlay, after the circle's click-outside handler
ConnectionClick(j) ==
    /\ Tick
    /\ Idle
    /\ j \in 1..Len(conns)
    /\ conns[j].hit
    /\ currentShape' = NullRef
    /\ selectedShape' = NullRef
    /\ IF selectedShape.st # "null" THEN HideShapePanel
       ELSE UNCHANGED <<overlaySourceShape, isWaitingForTarget, shapePanelOpen>>
    /\ selectedConnection' = LiveConn(conns[j].id)
    /\ panelConnection' = LiveConn(conns[j].id)
    /\ last' = Step("selectConnection")
    /\ UNCHANGED <<shapes, shapeLabels, conns, labels, shapeIdCounter,
                   connectionIdCounter, isActive, selectedShapes, deleteModal,
                   newModal, store, file>>

\* textContent of the first label with the id, if any
SetLabelText(la, id, text) ==
    LET i == IndexOfId(la, id)
    IN  IF i = 0 THEN la ELSE [la EXCEPT ![i].text = text]

\* what the connection panel can submit: the three label inputs and the
\* stroke-dasharray of the chosen line style (solid, dashed)
ConnectionInputs == {<<"", "", "", "">>, <<"s", "t", "c", "10,5">>}

\* the "apply" button of the connection panel: applyConnectionChanges with
\* the three label inputs and the line style
ApplyConnectionChanges(st, tt, ct, dash) ==
    LET group == DerefConn(panelConnection)
        typed == [source |-> st, target |-> tt, center |-> ct]
        RECURSIVE retext(_, _)
        retext(la, types) ==
            IF types = <<>> THEN la
            ELSE retext(IF Head(types) \in group.labelIds
                        THEN SetLabelText(la, LabelIdOf(group.id, Head(types)),
                                          typed[Head(types)])
                        ELSE la, Tail(types))
        la == retext(labels, <<"source", "target", "center">>)
        co == IF panelConnection.st = "live"
              THEN [conns EXCEPT ![IndexOfId(conns, group.id)].dash = dash]
              ELSE conns
        restyled == [group EXCEPT !.dash = dash]
    IN
    /\ Tick
    /\ Idle
    /\ panelConnection.st # "null"
    /\ labels' = la
    /\ conns' = co
    /\ selectedConnection' = IF panelConnection.st = "gone" /\
                                selectedConnection = panelConnection
                             THEN GoneConn(restyled) ELSE selectedConnection
    /\ panelConnection' = NullConn
    /\ SaveAs(Scene(shapes, shapeLabels, co, la), shapeIdCounter,
              connectionIdCounter)
    /\ last' = Step("applyConnection")
    /\ UNCHANGED <<shapes, shapeLabels, shapeIdCounter, connectionIdCounter,
                   selectedShape, currentShape, overlaySourceShape,
                   isWaitingForTarget, isActive, selectedShapes, deleteModal,
                   newModal, shapePanelOpen, file>>

\* the close button of the connection panel: hideConnectionPanel
CloseConnectionPanel ==
    /\ Tick
    /\ Idle
    /\ panelConnection.st # "null"
    /\ panelConnection' = NullConn
    /\ last' = Step("hideConnectionPanel")
    /\ UNCHANGED <<shapes, shapeLabels, conns, labels, shapeIdCounter,
                   connectionIdCounter, selectedShape, currentShape,
                   overlaySourceShape, isWaitingForTarget, selectedConnection,
                   isActive, selectedShapes, deleteModal, newModal, store,
                   shapePanelOpen, file>>

\* ---------------------------------------------------------------- delete
\* removal of the first sibling label of the shape in the shape's layer
RemoveSiblingLabel(sl, el) ==
    LET i == SiblingLabelIndex(sl, el)
    IN  IF i = 0 THEN sl ELSE RemoveAt(sl, i)

\* handleKeyDown on Delete with a selected shape: its connections, its
\* sibling label (found through the parent, so only for a shape of the
\* document) and the shape itself
deleteSelectedShape(sc, ref, el) ==
    LET sc1 == deleteShapeConnections(sc, el)
    IN  IF ref.st = "live"
        THEN Scene(RemoveId(sc1.shapes, el.id),
                   RemoveSiblingLabel(sc1.shapeLabels, el), sc1.conns, sc1.labels)
        ELSE sc1

\* handleDeleteKey with a selected connection: deleteConnection and the
\* removal of the group
deleteSelectedConnection(sc, group, inDocument) ==
    LET sc1 == deleteConnection(sc, group)
    IN  Scene(sc1.shapes, sc1.shapeLabels,
              IF inDocument THEN RemoveId(sc1.conns, group.id) ELSE sc1.conns,
              sc1.labels)

\* Delete or Backspace outside an input: handleKeyDown, then handleDeleteKey,
\* then the selection-mode key handler, in their order of registration
KeyDelete ==
    LET hasShape == selectedShape.st # "null"
        el == Deref(selectedShape)
        sc1 == IF hasShape THEN deleteSelectedShape(CurrentScene, selectedShape, el)
               ELSE CurrentScene
        gone == IF selectedShape.st = "live" THEN {el.id} ELSE {}
        removed == IdsOf(conns) \ IdsOf(sc1.conns)
        selConn == DetachConn(selectedConnection, removed, conns)
        hasConn == selConn.st # "null"
        group == IF selConn.st = "live"
                 THEN sc1.conns[IndexOfId(sc1.conns, selConn.el.id)]
                 ELSE selConn.el
        sc2 == IF hasConn
               THEN deleteSelectedConnection(sc1, group, selConn.st = "live")
               ELSE sc1
        removed2 == IdsOf(conns) \ IdsOf(sc2.conns)
        asks == isActive /\ selectedShapes # {}
    IN
    /\ Tick
    /\ Idle
    /\ hasShape \/ hasConn \/ asks
    /\ SetScene(sc2)
    /\ selectedShape' = NullRef
    /\ selectedConnection' = NullConn
    /\ currentShape' = Detach(currentShape, gone, shapes)
    /\ overlaySourceShape' = Detach(overlaySourceShape, gone, shapes)
    /\ panelConnection' = DetachConn(panelConnection, removed2, conns)
    /\ deleteModal' = asks
    /\ IF hasShape \/ hasConn
       THEN SaveAs(sc2, shapeIdCounter, connectionIdCounter)
       ELSE UNCHANGED store
    /\ last' = [Step(IF hasShape THEN "deleteShape" ELSE "deleteKey")
                   EXCEPT !.removed = IF hasShape THEN removed ELSE {}]
    /\ UNCHANGED <<shapeIdCounter, connectionIdCounter, isWaitingForTarget,
                   isActive, selectedShapes, newModal, shapePanelOpen, file>>

\* Escape: deselectShape, then the panels' key handler
KeyEscape ==
    /\ Tick
    /\ Idle
    /\ selectedShape' = NullRef
    /\ currentShape' = IF selectedShape.st # "null" THEN NullRef ELSE currentShape
    /\ IF selectedShape.st # "null" \/ shapePanelOpen THEN HideShapePanel
       ELSE UNCHANGED <<overlaySourceShape, isWaitingForTarget, shapePanelOpen>>
    /\ panelConnection' = IF shapePanelOpen /\ selectedShape.st = "null"
                          THEN panelConnection ELSE NullConn
    /\ last' = Step("escape")
    /\ UNCHANGED <<shapes, shapeLabels, conns, labels, shapeIdCounter,
                   connectionIdCounter, selectedConnection, isActive,
                   selectedShapes, deleteModal, newModal, store, file>>

\* the confirm handler of the delete modal: every selected shape still in
\* the document loses its connections and is removed
RECURSIVE deleteShapes(_, _)
deleteShapes(sc, ids) ==
    IF ids = {} THEN sc
    ELSE LET id == CHOOSE i \in ids : \A k \in ids : ShapeSuffix(i) <= ShapeSuffix(k)
             i == IndexOfId(sc.shapes, id)
         IN  IF i = 0 THEN deleteShapes(sc, ids \ {id})
             ELSE LET sc1 == deleteShapeConnections(sc, sc.shapes[i])
                  IN  deleteShapes(Scene(RemoveId(sc1.shapes, id), sc1.shapeLabels,
                                         sc1.conns, sc1.labels),
                                   ids \ {id})

\* the confirm button of the delete modal
ConfirmDelete ==
    LET sc == deleteShapes(CurrentScene, selectedShapes)
        gone == selectedShapes \cap IdsOf(shapes)
        removed == IdsOf(conns) \ IdsOf(sc.conns)
    IN
    /\ Tick
    /\ deleteModal
    /\ SetScene(sc)
    /\ selectedShapes' = {}
    /\ deleteModal' = FALSE
    /\ selectedShape' = Detach(selectedShape, gone, shapes)
    /\ currentShape' = Detach(currentShape, gone, shapes)
    /\ overlaySourceShape' = Detach(overlaySourceShape, gone, shapes)
    /\ selectedConnection' = DetachConn(selectedConnection, removed, conns)
    /\ panelConnection' = DetachConn(panelConnection, removed, conns)
    /\ SaveAs(sc, shapeIdCounter, connectionIdCounter)
    /\ last' = [Step("confirmDelete") EXCEPT !.removed = removed]
    /\ UNCHANGED <<shapeIdCounter, connectionIdCounter, isWaitingForTarget,
                   isActive, newModal, shapePanelOpen, file>>

\* the cancel or close button of the delete modal
CancelDelete ==
    /\ Tick
    /\ deleteModal
    /\ deleteModal' = FALSE
    /\ last' = Step("cancelDelete")
    /\ UNCHANGED <<shapes, shapeLabels, conns, labels, shapeIdCounter,
                   connectionIdCounter, selectedShape, currentShape,
                   overlaySourceShape, isWaitingForTarget, selectedConnection,
                   panelConnection, isActive, selectedShapes, newModal, store,
                   shapePanelOpen, file>>

\* -------------------------------------------------------- file operations
\* every reference to an element of the document becomes a reference to a
\* removed element when clearCanvas empties the document
ClearRefs ==
    /\ selectedShape' = NullRef
    /\ currentShape' = Detach(currentShape, IdsOf(shapes), shapes)
    /\ overlaySourceShape' = Detach(overlaySourceShape, IdsOf(shapes), shapes)
    /\ selectedConnection' = DetachConn(selectedConnection, IdsOf(conns), conns)
    /\ panelConnection' = DetachConn(panelConnection, IdsOf(conns), conns)

\* the clear-canvas button: clearCanvas is the click listener itself
ClearCanvasClick ==
    LET sc == clearCanvasScene(CurrentScene)
    IN
    /\ Tick
    /\ Idle
    /\ SetScene(sc)
    /\ ClearRefs
    /\ connectionIdCounter' = ClearedConnectionCounter
    /\ SaveAs(sc, shapeIdCounter, ClearedConnectionCounter)
    /\ last' = Step("clearCanvas")
    /\ UNCHANGED <<shapeIdCounter, isWaitingForTarget, isActive,
                   selectedShapes, deleteModal, newModal, shapePanelOpen, file>>

\* the new-topology button: newTopology shows the confirmation modal
NewTopologyClick ==
    /\ Tick
    /\ Idle
    /\ newModal' = TRUE
    /\ last' = Step("newTopology")
    /\ UNCHANGED <<shapes, shapeLabels, conns, labels, shapeIdCounter,
                   connectionIdCounter, selectedShape, currentShape,
                   overlaySourceShape, isWaitingForTarget, selectedConnection,
                   panelConnection, isActive, selectedShapes, deleteModal,
                   store, shapePanelOpen, file>>

\* the confirm button of the new-topology modal: clearCanvas, clearStorage
ConfirmNew ==
    /\ Tick
    /\ newModal
    /\ newModal' = FALSE
    /\ SetScene(clearCanvasScene(CurrentScene))
    /\ ClearRefs
    /\ connectionIdCounter' = ClearedConnectionCounter
    /\ store' = EmptyStore
    /\ last' = Step("confirmNew")
    /\ UNCHANGED <<shapeIdCounter, isWaitingForTarget, isActive,
                   selectedShapes, deleteModal, shapePanelOpen, file>>

\* the cancel or close button of the new-topology modal
CancelNew ==
    /\ Tick
    /\ newModal
    /\ newModal' = FALSE
    /\ last' = Step("cancelNew")
    /\ UNCHANGED <<shapes, shapeLabels, conns, labels, shapeIdCounter,
                   connectionIdCounter, selectedShape, currentShape,
                   overlaySourceShape, isWaitingForTarget, selectedConnection,
                   panelConnection, isActive, selectedShapes, deleteModal,
                   store, shapePanelOpen, file>>

\* the export button: the downloaded file
ExportTopology ==
    /\ Tick
    /\ Idle
    /\ file' = exportTopology(CurrentScene)
    /\ last' = Step("export")
    /\ UNCHANGED <<shapes, shapeLabels, conns, labels, shapeIdCounter,
                   connectionIdCounter, selectedShape, currentShape,
                   overlaySourceShape, isWaitingForTarget, selectedConnection,
                   panelConnection, isActive, selectedShapes, deleteModal,
                   newModal, store, shapePanelOpen>>

\* the longest data-connections token list of a scene
BackRefs(sc) == MaxOf({Len(sc.shapes[i].connections) : i \in 1..Len(sc.shapes)})

\* the import button with the exported file chosen: loadTopology
ImportTopology ==
    LET sc == LoadedScene(CurrentScene, file)
        shapeCounter == BumpedCounter(shapeIdCounter, MaxShapeSuffix(file))
        connectionCounter == BumpedCounter(ClearedConnectionCounter,
                                           MaxConnectionSuffix(file))
    IN
    /\ Tick
    /\ Idle
    /\ BackRefs(sc) <= MaxBackRefs
    /\ SetScene(sc)
    /\ ClearRefs
    /\ shapeIdCounter' = shapeCounter
    /\ connectionIdCounter' = connectionCounter
    /\ SaveAs(sc, shapeCounter, connectionCounter)
    /\ last' = Step("import")
    /\ UNCHANGED <<isWaitingForTarget, isActive, selectedShapes, deleteModal,
                   newModal, shapePanelOpen, file>>

\* what the chosen file can hold instead of a document: text JSON.parse
\* rejects, an object without a shapes list, a shapes list whose first entry
\* is null
InvalidFiles == {"unparsable", "noShapes", "malformedEntry"}

\* the onload handler of importTopology on such a file: JSON.parse throws
\* before loadTopology is called, or loadTopology runs clearCanvas and then
\* returns (no shapes list) or throws at the entry (caught by the handler,
\* which shows the alert)
ImportInvalid(content) ==
    LET loads == content # "unparsable"
        sc == IF loads THEN clearCanvasScene(CurrentScene) ELSE CurrentScene
    IN
    /\ Tick
    /\ Idle
    /\ SetScene(sc)
    /\ IF loads THEN ClearRefs
       ELSE UNCHANGED <<selectedShape, currentShape, overlaySourceShape,
                        selectedConnection, panelConnection>>
    /\ connectionIdCounter' = IF loads THEN ClearedConnectionCounter
                              ELSE connectionIdCounter
    /\ store' = IF loads
                THEN saveAppState(sc, shapeIdCounter, ClearedConnectionCounter)
                ELSE store
    /\ last' = [Step("importInvalid") EXCEPT
                   !.alert = IF content = "noShapes" THEN "" ELSE "Import Error"]
    /\ UNCHANGED <<shapeIdCounter, isWaitingForTarget, isActive,
                   selectedShapes, deleteModal, newModal, shapePanelOpen, file>>

\* a page load: module state starts afresh, restoreAppState rebuilds the
\* scene and the counters from the store, if anything was saved, and
\* migrateExistingConnections backfills the label ids of the connections
Reload ==
    LET restored == IF store.saved THEN RestoredScene(store.topology)
                    ELSE EmptyScene
        sc == migrateExistingConnections(restored)
    IN
    /\ Tick
    /\ BackRefs(sc) <= MaxBackRefs
    /\ SetScene(sc)
    /\ shapeIdCounter' = RestoredCounter(store, store.shapeCounter)
    /\ connectionIdCounter' = RestoredCounter(store, store.connectionCounter)
    /\ selectedShape' = NullRef
    /\ currentShape' = NullRef
    /\ overlaySourceShape' = NullRef
    /\ isWaitingForTarget' = FALSE
    /\ selectedConnection' = NullConn
    /\ panelConnection' = NullConn
    /\ isActive' = FALSE
    /\ selectedShapes' = {}
    /\ deleteModal' = FALSE
    /\ newModal' = FALSE
    /\ shapePanelOpen' = FALSE
    /\ last' = Step("reload")
    /\ store' = IF migratedCount(restored) > 0
                THEN saveAppState(sc, shapeIdCounter', connectionIdCounter')
                ELSE store
    /\ UNCHANGED file

\* ------------------------------------------------------------------ Next
Next ==
    \/ \E d \in Drops : DropShape(d[1], d[2])
    \/ \E i \in 1..Len(shapes) : ShapePress(i)
    \/ LeftHalfClick
    \/ RightHalfClick
    \/ PanelStartConnection
    \/ PanelDuplicate
    \/ \E layer \in Layers : PanelMove(layer)
    \/ \E text \in Texts : PanelApply(text)
    \/ PanelClose
    \/ \E r \in SelectionRects : CanvasClick(r)
    \/ ToggleSelectionMode
    \/ \E j \in 1..Len(conns) : ConnectionClick(j)
    \/ \E in \in ConnectionInputs :
           ApplyConnectionChanges(in[1], in[2], in[3], in[4])
    \/ CloseConnectionPanel
    \/ KeyDelete
    \/ KeyEscape
    \/ ConfirmDelete
    \/ CancelDelete
    \/ ClearCanvasClick
    \/ NewTopologyClick
    \/ ConfirmNew
    \/ CancelNew
    \/ ExportTopology
    \/ ImportTopology
    \/ \E content \in InvalidFiles : ImportInvalid(content)
    \/ Reload

Spec == Init /\ [][Next]_vars

\* ------------------------------------------------- documents without ids
\* the module state of a freshly loaded page, apart from the scene, the
\* counters, the store and the exported file
FreshPage ==
    /\ selectedShape = NullRef
    /\ currentShape = NullRef
    /\ overlaySourceShape = NullRef
    /\ isWaitingForTarget = FALSE
    /\ selectedConnection = NullConn
    /\ panelConnection = NullConn
    /\ isActive = FALSE
    /\ selectedShapes = {}
    /\ deleteModal = FALSE
    /\ newModal = FALSE
    /\ shapePanelOpen = FALSE
    /\ zoom = ReadyZoom
    /\ last = Step("init")
    /\ steps = 0
    /\ drag = NoDrag
    /\ sel = NoSel
    /\ jobs = <<>>
    /\ evt = NoEvent

\* the scene after two drops (the first of the given kind, the second a
\* rectangle) and a connection from the first shape to the second
ConnectedPair(kind) ==
    LET first == createShape(kind, <<100, 100>>, 0)
        second == createShape("rect", <<300, 100>>, 1)
    IN  createConnection(Scene(<<first, second>>, <<>>, <<>>, <<>>), 0,
                         first, TRUE, second).scene

\* the same with a second connection, back from the second shape
ConnectedBothWays ==
    LET sc == ConnectedPair("rect")
    IN  createConnection(sc, 1, sc.shapes[2], TRUE, sc.shapes[1]).scene

LabelTypes == {"source", "target", "center"}

\* a document of an earlier version: connection i carries only the label-id
\* attributes ids[i], and only the label elements in kept exist
LegacyScene(sc, ids, kept) ==
    LET Kept(l) == l.id \in kept
    IN  Scene(sc.shapes, sc.shapeLabels,
              [i \in 1..Len(sc.conns) |-> [sc.conns[i] EXCEPT !.labelIds = ids[i]]],
              SelectSeq(sc.labels, Kept))

MigrateInit ==
    /\ \E ids \in [1..Len(ConnectedBothWays.conns) -> SUBSET LabelTypes],
          kept \in SUBSET {l.id : l \in Range(ConnectedBothWays.labels)} :
           /\ shapes = LegacyScene(ConnectedBothWays, ids, kept).shapes
           /\ shapeLabels = <<>>
           /\ conns = LegacyScene(ConnectedBothWays, ids, kept).conns
           /\ labels = LegacyScene(ConnectedBothWays, ids, kept).labels
    /\ shapeIdCounter = 2
    /\ connectionIdCounter = 2
    /\ store = EmptyStore
    /\ file = NoTopology
    /\ FreshPage
    /\ call = NoCall

\* a run of migrateExistingConnections
Migrate ==
    LET sc == migrateExistingConnections(CurrentScene)
        n == migratedCount(CurrentScene)
    IN
    /\ Count
    /\ SetScene(sc)
    /\ store' = IF n > 0 THEN saveAppState(sc, shapeIdCounter, connectionIdCounter)
                ELSE store
    /\ evt' = [NoEvent EXCEPT !.op = "migrate", !.saves = IF n > 0 THEN 1 ELSE 0,
                              !.changed = (sc # CurrentScene)]
    /\ UNCHANGED <<shapeIdCounter, connectionIdCounter, selectedShape,
                   currentShape, overlaySourceShape, isWaitingForTarget,
                   selectedConnection, panelConnection, isActive,
                   selectedShapes, deleteModal, newModal, shapePanelOpen, file,
                   last, drag, sel, jobs, call, zoom>>

MigrateNext == Migrate

MigrateSpec == MigrateInit /\ [][MigrateNext]_vars

\* ================================================================ claims
\* ids of the connections of the document that name the shape id
NamingConnections(co, shapeId) ==
    {co[j].id : j \in {k \in 1..Len(co) :
                          co[k].source = shapeId \/ co[k].target = shapeId}}

\* C1: after the deletion of a shape (Delete key on the selected shape, or
\* the confirmed multi-delete) no shape of the document lists the id of a
\* connection that was removed with the deleted shape.
C1_DeleteCleansOtherEndpoint ==
    last.op \in {"deleteShape", "confirmDelete"} =>
        \A i \in 1..Len(shapes) :
            Range(shapes[i].connections) \cap last.removed = {}

\* C2: in every state, the back-reference list of each shape of the
\* document holds exactly the ids of the connections of the document that
\* name the shape as source or target.
C2_BackRefsExact ==
    \A i \in 1..Len(shapes) :
        Range(shapes[i].connections) = NamingConnections(conns, shapes[i].id)

\* C3: in every state, the source id and the target id of every connection
\* of the document are ids of shapes of the document.
C3_EndpointsLive ==
    \A j \in 1..Len(conns) :
        HasId(shapes, conns[j].source) /\ HasId(shapes, conns[j].target)

Distinct(seq) == \A i, j \in 1..Len(seq) : seq[i].id = seq[j].id => i = j

\* C4: in every state, no two shapes of the document share an id and no
\* two connections of the document share an id.
C4_IdsUnique == Distinct(shapes) /\ Distinct(conns)

\* C4 witness: an import has just rebuilt a document of two shapes and a
\* connection.
C4_Witness ==
    last.op = "import" /\ Len(shapes) = 2 /\ Len(conns) = 1

\* C5 as stated: after a startup restore or an import, each id counter is
\* strictly greater than the numeric suffix of every restored id of its
\* kind.
C5_CountersStrictlyAbove ==
    last.op \in {"reload", "import"} =>
        /\ \A i \in 1..Len(shapes) : ShapeSuffix(shapes[i].id) < shapeIdCounter
        /\ \A j \in 1..Len(conns) :
               ConnectionSuffix(conns[j].id) < connectionIdCounter

\* C5 amended: after a startup restore each id counter is at least the
\* numeric suffix of every restored id of its kind (the next id is the
\* counter plus one); after an import it is strictly greater.
C5_CountersCoverRestoredIds ==
    /\ last.op = "reload" =>
           /\ \A i \in 1..Len(shapes) : ShapeSuffix(shapes[i].id) <= shapeIdCounter
           /\ \A j \in 1..Len(conns) :
                  ConnectionSuffix(conns[j].id) <= connectionIdCounter
    /\ last.op = "import" =>
           /\ \A i \in 1..Len(shapes) : ShapeSuffix(shapes[i].id) < shapeIdCounter
           /\ \A j \in 1..Len(conns) :
                  ConnectionSuffix(conns[j].id) < connectionIdCounter

\* C5 witness: a startup restore has rebuilt a shape and a connection whose
\* suffixes equal the restored counters.
C5_Witness ==
    /\ last.op = "reload"
    /\ \E i \in 1..Len(shapes) : ShapeSuffix(shapes[i].id) = shapeIdCounter
    /\ \E j \in 1..Len(conns) : ConnectionSuffix(conns[j].id) = connectionIdCounter

\* C6: a click on a target whose id is the id of the awaited connection's
\* source is rejected: a warning is shown and no shape, connection or
\* label changes.
C6_SelfTargetRejected ==
    [][\A i \in 1..Len(shapes) :
          (/\ ShapePress(i)
           /\ isWaitingForTarget
           /\ overlaySourceShape.st # "null"
           /\ overlaySourceShape.el.id = shapes[i].id)
          => (last'.alert # "" /\ UNCHANGED <<shapes, conns, labels>>)]_vars

\* C7: a multi-shape delete, a new-document action or a clear-canvas action
\* removes an element only when its confirmation modal was open, and a
\* cancelled modal leaves the scene as it was.
C7_ConfirmedBeforeRemoval ==
    [][/\ (/\ last'.op \in {"confirmDelete", "confirmNew", "clearCanvas"}
           /\ <<shapes, conns, labels>>' # <<shapes, conns, labels>>)
          => (deleteModal \/ newModal)
       /\ (CancelDelete \/ CancelNew)
          => UNCHANGED <<shapes, shapeLabels, conns, labels>>]_vars

\* number of connections of a topology document that name the shape id,
\* an end at a time
NamingEnds(topology, shapeId) ==
    Cardinality({j \in 1..Len(topology.connections) :
                     topology.connections[j].sourceId = shapeId})
    + Cardinality({j \in 1..Len(topology.connections) :
                       topology.connections[j].targetId = shapeId})

\* every shape rebuilt from the topology document carries its stored
\* back-references and one more for each connection end naming it
BackRefsAdded(topology) ==
    \A i \in 1..Len(shapes) :
        LET k == IndexOfId(topology.shapes, shapes[i].id)
        IN  k # 0 /\ Len(shapes[i].connections) =
                Len(topology.shapes[k].connections)
                + NamingEnds(topology, shapes[i].id)

\* C8: after a startup restore and after an import, every restored
\* connection has been added to the back-reference lists of its source and
\* target shapes, which therefore existed when it was restored.
C8_ShapesBeforeConnections ==
    /\ (last.op = "reload" /\ store.saved) => BackRefsAdded(store.topology)
    /\ last.op = "import" => BackRefsAdded(file)

\* C8 witness: a startup restore has rebuilt a connection between two shapes
\* that each list it twice (once stored, once added).
C8_Witness ==
    /\ last.op = "reload"
    /\ Len(conns) = 1
    /\ Len(shapes) = 2
    /\ \A i \in 1..Len(shapes) : Len(shapes[i].connections) = 2

\* what a scene shows: the bounds of each shape, each shape label, each
\* connection label, each connection line and each end-label circle
ShapeBoundsOf(sc) ==
    {<<sc.shapes[i].id, getShapeBounds(sc.shapes[i])>> : i \in 1..Len(sc.shapes)}
ShapeLabelsOf(sc) ==
    {<<sc.shapeLabels[i].shapeId, sc.shapeLabels[i].text, sc.shapeLabels[i].x,
       sc.shapeLabels[i].y>> : i \in 1..Len(sc.shapeLabels)}
ConnectionLabelsOf(sc) ==
    {<<sc.labels[i].id, sc.labels[i].text, sc.labels[i].x, sc.labels[i].y>> :
        i \in 1..Len(sc.labels)}
ConnectionLinesOf(sc) ==
    {<<sc.conns[j].id, sc.conns[j].source, sc.conns[j].target, sc.conns[j].x1,
       sc.conns[j].y1, sc.conns[j].x2, sc.conns[j].y2>> : j \in 1..Len(sc.conns)}
EndCirclesOf(sc) ==
    {<<sc.labels[i].id, sc.labels[i].center, sc.labels[i].radius>> :
        i \in {k \in 1..Len(sc.labels) : sc.labels[k].id[3] \in {"source", "target"}}}

\* C9: in every state, saving the scene and restoring it on a fresh page
\* gives every shape the same bounds, every shape label and connection
\* label the same text and position, and every connection the same source,
\* target, line endpoints and end-label constraint circles.
C9_SaveRestoreRoundTrip ==
    LET restored == RestoredScene(saveTopology(CurrentScene))
    IN  /\ ShapeBoundsOf(restored) = ShapeBoundsOf(CurrentScene)
        /\ ShapeLabelsOf(restored) = ShapeLabelsOf(CurrentScene)
        /\ ConnectionLabelsOf(restored) = ConnectionLabelsOf(CurrentScene)
        /\ ConnectionLinesOf(restored) = ConnectionLinesOf(CurrentScene)
        /\ EndCirclesOf(restored) = EndCirclesOf(CurrentScene)

\* the substructure and layer of each shape and the line style of each
\* connection
ShapeMarkupOf(sc) ==
    {<<sc.shapes[i].id, sc.shapes[i].inner, sc.shapes[i].layer>> :
        i \in 1..Len(sc.shapes)}
LineStylesOf(sc) ==
    {<<sc.conns[j].id, sc.conns[j].dash>> : j \in 1..Len(sc.conns)}

\* C10: in every state, exporting the scene and importing the file on a
\* fresh page gives the same shape substructure, layers, connection line
\* styles, labels and end-label constraint circles as saving the scene and
\* restoring it on a fresh page.
C10_ImportMatchesRestore ==
    LET restored == RestoredScene(saveTopology(CurrentScene))
        imported == LoadedScene(EmptyScene, exportTopology(CurrentScene))
    IN  /\ ShapeMarkupOf(imported) = ShapeMarkupOf(restored)
        /\ LineStylesOf(imported) = LineStylesOf(restored)
        /\ ConnectionLabelsOf(imported) = ConnectionLabelsOf(restored)
        /\ EndCirclesOf(imported) = EndCirclesOf(restored)

\* --------------------------------------------------- pointer interactions
\* pointer positions in canvas coordinates (zoom 1, no scroll offset): moves
\* within and beyond the drag threshold of a press on the first shape, a move
\* off the axis of the connection, a corner of a selection rectangle
MaxPointerSteps == 6

Points == {<<102, 100>>, <<140, 100>>, <<100, 160>>, <<160, 97>>}
\* a position on the canvas background
BackgroundPoints == {<<20, 20>>}
\* the shape kinds of the palette
Kinds == {"rect", "g", "line", "arrow"}

LineCentre(l) == <<Quot(l[1] + l[3], 2), Quot(l[2] + l[4], 2)>>
TranslateLine(l, d) == <<l[1] + d[1], l[2] + d[2], l[3] + d[1], l[4] + d[2]>>
IsArrow(el) == el.tag = "g" /\ el.line # <<>>

\* where the pointer presses a shape: the centre of what it paints
PressPoint(el) ==
    LET b == getShapeBounds(el)
    IN  IF IsArrow(el) THEN <<b.centerX + el.x, b.centerY + el.y>>
        ELSE <<b.centerX, b.centerY>>

\* startDragging: the drag offset of a press at p
startDragging(el, p) ==
    IF IsArrow(el) \/ el.tag = "line"
    THEN <<p[1] - LineCentre(el.line)[1], p[2] - LineCentre(el.line)[2]>>
    ELSE <<p[1] - el.x, p[2] - el.y>>

\* handleGlobalMouseMove at the threshold: the offset recomputed for groups
\* (from the translation, 0 0 without a transform) and rects, kept for lines
ThresholdOffset(el, p, old) ==
    IF el.tag = "g" \/ el.tag = "rect" THEN <<p[1] - el.x, p[2] - el.y>>
    ELSE old

\* the data-position values of a sibling label
LabelPositions == {"above", "below", "left", "right", "center"}
\* the switch of updateSiblingLabelPosition for a rect at x, y
SiblingLabelPlace(position, x, y, width, height) ==
    CASE position = "above" -> <<x + Quot(width, 2), y - LabelOffset>>
      [] position = "left" -> <<x - LabelOffset, y + Quot(height, 2)>>
      [] position = "right" -> <<x + width + LabelOffset, y + Quot(height, 2)>>
      [] position = "center" -> <<x + Quot(width, 2), y + Quot(height, 2) + 5>>
      [] OTHER -> <<x + Quot(width, 2), y + height + LabelOffset>>

\* updateSiblingLabelPosition of a rect with a sibling label
updateSiblingLabelPosition(sl, el) ==
    LET i == SiblingLabelIndex(sl, el)
        place == SiblingLabelPlace(sl[i].position, el.x, el.y,
                                   RectWidth, RectHeight)
    IN  IF el.tag # "rect" \/ i = 0 THEN sl
        ELSE [sl EXCEPT ![i] = [@ EXCEPT !.x = place[1], !.y = place[2]]]

\* the scene with element el put in place of the first shape with its id,
\* followed by updateShapeConnections(el)
Reposition(sc, el) ==
    LET sh == UpdateShapeById(sc.shapes, el.id, [e \in Range(sc.shapes) |-> el])
    IN  updateShapeConnections(
            Scene(sh, updateSiblingLabelPosition(sc.shapeLabels, el),
                  sc.conns, sc.labels), el)

\* handleShapeDragging of shape el with the pointer at p
handleShapeDragging(sc, el, p, offset) ==
    LET new == <<p[1] - offset[1], p[2] - offset[2]>>
        c == LineCentre(el.line)
        moved == IF IsArrow(el) \/ el.tag = "line"
                 THEN [el EXCEPT !.line = TranslateLine(@, <<new[1] - c[1],
                                                            new[2] - c[2]>>)]
                 ELSE IF el.tag = "g"
                 THEN [el EXCEPT !.transform = TRUE, !.x = new[1], !.y = new[2]]
                 ELSE [el EXCEPT !.x = new[1], !.y = new[2]]
    IN  Reposition(sc, moved)

\* handleEndpointDrag of a line or an arrow with the pointer at p
handleEndpointDrag(sc, el, endpointType, p) ==
    LET moved == IF el.line = <<>> THEN el
                 ELSE IF endpointType = "start"
                 THEN [el EXCEPT !.line = <<p[1], p[2], @[3], @[4]>>]
                 ELSE [el EXCEPT !.line = <<@[1], @[2], p[1], p[2]>>]
    IN  IF el.tag = "g" /\ el.line = <<>> THEN sc ELSE Reposition(sc, moved)

\* SelectionMode.getShapePosition
getShapePosition(el) ==
    IF el.transform \/ el.tag = "rect" THEN <<el.x, el.y>> ELSE <<0, 0>>

\* SelectionMode.setShapePosition: a transform for an element that has one
\* and for any group, x and y for a rect, nothing for a line
setShapePosition(el, p) ==
    IF el.transform \/ el.tag = "g"
    THEN [el EXCEPT !.transform = TRUE, !.x = p[1], !.y = p[2]]
    ELSE IF el.tag = "rect" THEN [el EXCEPT !.x = p[1], !.y = p[2]]
    ELSE el

\* startGroupDrag: the position snapshot of the selected shapes
startGroupDrag(sh, ids, p) ==
    [isSelecting |-> sel.isSelecting, isDraggingGroup |-> TRUE,
     startPoint |-> sel.startPoint, dragStartPoint |-> p,
     initialShapePositions |->
         [id \in {i \in ids : HasId(sh, i)} |->
             getShapePosition(sh[IndexOfId(sh, id)])]]

\* updateGroupDrag: every selected shape with a snapshot set to its snapshot
\* plus the pointer's displacement
GroupMoved(sh, ids, initial, d) ==
    [k \in 1..Len(sh) |->
        IF /\ sh[k].id \in ids \cap DOMAIN initial
           /\ k = IndexOfId(sh, sh[k].id)
        THEN setShapePosition(sh[k], <<initial[sh[k].id][1] + d[1],
                                       initial[sh[k].id][2] + d[2]>>)
        ELSE sh[k]]

\* the continuations updateGroupDrag leaves to import().then: one
\* updateShapeConnections per moved shape
GroupJobs(sh, ids, initial) ==
    LET Moved(el) == el.id \in ids \cap DOMAIN initial
        moved == SelectSeq(sh, Moved)
    IN  [k \in 1..Len(moved) |-> <<"update", moved[k].id>>]

\* a document of two connected shapes, as built by two drops and a
\* connection, or the same after an export and an import of the file
PointerInit ==
    /\ \E kind \in Kinds, imported \in BOOLEAN :
          LET made == ConnectedPair(kind)
              doc == exportTopology(made)
              sc == IF imported THEN LoadedScene(made, doc) ELSE made
              shapeCounter == IF imported
                              THEN BumpedCounter(2, MaxShapeSuffix(doc)) ELSE 2
              connectionCounter ==
                  IF imported
                  THEN BumpedCounter(ClearedConnectionCounter,
                                     MaxConnectionSuffix(doc))
                  ELSE 1
          IN  /\ shapes = sc.shapes
              /\ shapeLabels = sc.shapeLabels
              /\ conns = sc.conns
              /\ labels = sc.labels
              /\ shapeIdCounter = shapeCounter
              /\ connectionIdCounter = connectionCounter
              /\ store = saveAppState(sc, shapeCounter, connectionCounter)
              /\ file = IF imported THEN doc ELSE NoTopology
    /\ FreshPage
    /\ call = NoCall

\* one more pointer event of a session of at most MaxPointerSteps events
PointerCount == steps < MaxPointerSteps /\ steps' = steps + 1

\* what the pointer handlers never touch
PointerFrame ==
    UNCHANGED <<shapeIdCounter, connectionIdCounter, overlaySourceShape,
                isWaitingForTarget, selectedConnection, panelConnection,
                isActive, deleteModal, newModal, shapePanelOpen, file, last,
                call, zoom>>

\* mousedown on the i-th shape: startDragging, or in selection mode the
\* pick of the shape and startGroupDrag
ShapeMouseDown(i) ==
    LET el == shapes[i]
        p == PressPoint(el)
        picked == IF el.id \in selectedShapes THEN selectedShapes ELSE {el.id}
    IN
    /\ PointerCount
    /\ Idle
    /\ ~evt.pressed
    /\ Hittable(el)
    /\ IF isActive
       THEN /\ selectedShapes' = picked
            /\ sel' = startGroupDrag(shapes, picked, p)
            /\ UNCHANGED <<drag, selectedShape, currentShape>>
       ELSE /\ drag' = [drag EXCEPT !.isMouseDown = TRUE, !.dragStart = p,
                                    !.dragOffset = startDragging(el, p)]
            /\ selectedShape' = LiveRef(el.id)
            /\ currentShape' = LiveRef(el.id)
            /\ UNCHANGED <<sel, selectedShapes>>
    /\ evt' = [NoEvent EXCEPT
                  !.op = "down", !.pt = p, !.pressed = TRUE,
                  !.groupStart =
                      IF isActive
                      THEN [id \in {k \in picked : HasId(shapes, k)} |->
                               getShapeBounds(shapes[IndexOfId(shapes, id)])]
                      ELSE <<>>]
    /\ UNCHANGED <<shapes, shapeLabels, conns, labels, store, jobs>>
    /\ PointerFrame

\* mousedown on the canvas background: startPanning, or in selection mode
\* startSelection
CanvasMouseDown(p) ==
    /\ PointerCount
    /\ Idle
    /\ ~evt.pressed
    /\ \A k \in 1..Len(shapes) :
           ~rectanglesIntersect(<<p[1], p[2], 0, 0>>, getShapeBounds(shapes[k]))
    /\ IF isActive
       THEN /\ sel' = [sel EXCEPT !.isSelecting = TRUE, !.startPoint = p]
            /\ selectedShapes' = {}
            /\ UNCHANGED drag
       ELSE /\ drag' = [drag EXCEPT !.isPanningCanvas = TRUE]
            /\ UNCHANGED <<sel, selectedShapes>>
    /\ evt' = [NoEvent EXCEPT !.op = "down", !.pt = p, !.pressed = TRUE]
    /\ UNCHANGED <<shapes, shapeLabels, conns, labels, store, jobs,
                   selectedShape, currentShape>>
    /\ PointerFrame

\* mousedown on an endpoint handle of the selected line or arrow
EndpointMouseDown(endpointType) ==
    /\ PointerCount
    /\ Idle
    /\ ~evt.pressed
    /\ selectedShape.st = "live"
    /\ Deref(selectedShape).line # <<>>
    /\ drag' = [drag EXCEPT !.isDraggingEndpoint = TRUE,
                            !.draggingEndpointType = endpointType]
    /\ evt' = [NoEvent EXCEPT
                  !.op = "down", !.pressed = TRUE,
                  !.pt = IF endpointType = "start"
                         THEN <<Deref(selectedShape).line[1],
                                Deref(selectedShape).line[2]>>
                         ELSE <<Deref(selectedShape).line[3],
                                Deref(selectedShape).line[4]>>]
    /\ UNCHANGED <<shapes, shapeLabels, conns, labels, store, jobs, sel,
                   selectedShapes, selectedShape, currentShape>>
    /\ PointerFrame

\* something a mousemove acts on is in progress
InProgress ==
    \/ drag.isMouseDown \/ drag.isDraggingShape \/ drag.isDraggingEndpoint
    \/ drag.isPanningCanvas \/ sel.isSelecting \/ sel.isDraggingGroup

\* mousemove over the canvas: the SelectionMode listener of the canvas, then
\* handleGlobalMouseMove
MouseMove(p) ==
    LET groupDrag == isActive /\ sel.isDraggingGroup
        rubber == isActive /\ ~sel.isDraggingGroup /\ sel.isSelecting
        d == <<p[1] - sel.dragStartPoint[1], p[2] - sel.dragStartPoint[2]>>
        sh1 == IF groupDrag
               THEN GroupMoved(shapes, selectedShapes,
                               sel.initialShapePositions, d)
               ELSE shapes
        newJobs == IF groupDrag
                   THEN GroupJobs(shapes, selectedShapes,
                                  sel.initialShapePositions)
                   ELSE <<>>
        r == <<Min2(sel.startPoint[1], p[1]), Min2(sel.startPoint[2], p[2]),
               Abs(p[1] - sel.startPoint[1]), Abs(p[2] - sel.startPoint[2])>>
        sc1 == Scene(sh1, shapeLabels, conns, labels)
        hasShape == selectedShape.st = "live"
        el == sh1[IndexOfId(sh1, selectedShape.el.id)]
        panning == drag.isPanningCanvas
        endpoint == ~panning /\ drag.isDraggingEndpoint /\ hasShape
        dx == Abs(p[1] - drag.dragStart[1])
        dy == Abs(p[2] - drag.dragStart[2])
        crossing == /\ ~panning /\ ~endpoint /\ hasShape
                    /\ drag.isMouseDown /\ ~drag.isDraggingShape
                    /\ dx * dx + dy * dy > dragThreshold * dragThreshold
        offset == IF crossing THEN ThresholdOffset(el, p, drag.dragOffset)
                  ELSE drag.dragOffset
        dragging == /\ ~panning /\ ~endpoint /\ hasShape
                    /\ (drag.isDraggingShape \/ crossing)
        sc2 == IF endpoint
               THEN handleEndpointDrag(sc1, el, drag.draggingEndpointType, p)
               ELSE IF dragging THEN handleShapeDragging(sc1, el, p, offset)
               ELSE sc1
    IN
    /\ PointerCount
    /\ InProgress
    /\ SetScene(sc2)
    /\ selectedShapes' = IF rubber THEN highlightIntersectingShapes(shapes, r)
                         ELSE selectedShapes
    /\ drag' = [drag EXCEPT !.isDraggingShape = @ \/ crossing,
                            !.dragOffset = offset]
    /\ jobs' = jobs \o newJobs
    /\ evt' = [evt EXCEPT !.op = "move", !.pt = p, !.saves = 0,
                          !.changed = (sc2 # CurrentScene)]
    /\ UNCHANGED <<sel, store, selectedShape, currentShape>>
    /\ PointerFrame

\* mouseup, over the canvas or outside it: the SelectionMode listener of the
\* canvas (inside only), handleGlobalMouseUp, then the SelectionMode
\* listener of the document
MouseUp(inside) ==
    LET endsGroup == sel.isDraggingGroup
        endsSelection == /\ inside /\ isActive
                         /\ ~sel.isDraggingGroup /\ sel.isSelecting
        wasInteracting == drag.isDraggingShape \/ drag.isDraggingEndpoint
    IN
    /\ PointerCount
    /\ evt.pressed
    /\ sel' = IF endsGroup
              THEN [sel EXCEPT !.isDraggingGroup = FALSE,
                               !.dragStartPoint = <<>>,
                               !.initialShapePositions = <<>>]
              ELSE IF endsSelection THEN [sel EXCEPT !.isSelecting = FALSE]
              ELSE sel
    /\ drag' = NoDrag
    /\ store' = IF wasInteracting
                THEN saveAppState(CurrentScene, shapeIdCounter,
                                  connectionIdCounter)
                ELSE store
    /\ jobs' = IF endsGroup THEN Append(jobs, <<"save">>) ELSE jobs
    /\ evt' = [evt EXCEPT !.op = "up", !.pressed = FALSE, !.changed = FALSE,
                          !.saves = IF wasInteracting THEN 1 ELSE 0,
                          !.groupStart = <<>>]
    /\ UNCHANGED <<shapes, shapeLabels, conns, labels, selectedShapes,
                   selectedShape, currentShape>>
    /\ PointerFrame

\* the oldest pending continuation runs
RunJob ==
    LET job == Head(jobs)
        i == IndexOfId(shapes, job[2])
    IN
    /\ jobs # <<>>
    /\ jobs' = Tail(jobs)
    /\ IF job[1] = "update"
       THEN /\ SetScene(IF i = 0 THEN CurrentScene
                        ELSE updateShapeConnections(CurrentScene, shapes[i]))
            /\ UNCHANGED store
       ELSE /\ store' = saveAppState(CurrentScene, shapeIdCounter,
                                     connectionIdCounter)
            /\ UNCHANGED <<shapes, shapeLabels, conns, labels>>
    /\ UNCHANGED <<steps, drag, sel, evt, selectedShapes, selectedShape,
                   currentShape>>
    /\ PointerFrame

PointerNext ==
    \/ \E i \in 1..Len(shapes) : ShapeMouseDown(i)
    \/ \E p \in BackgroundPoints : CanvasMouseDown(p)
    \/ \E endpointType \in {"start", "end"} : EndpointMouseDown(endpointType)
    \/ \E p \in Points : MouseMove(p)
    \/ \E inside \in BOOLEAN : MouseUp(inside)
    \/ RunJob
    \/ (steps < MaxPointerSteps /\ ToggleSelectionMode)

PointerSpec == PointerInit /\ [][PointerNext]_vars

\* ================================================================ claims
\* C11: a run of the label-id backfill that follows another run changes
\* nothing: every connection keeps the label ids the first run gave it
C11_BackfillIdempotent ==
    [][evt.op = "migrate" =>
          <<shapes, shapeLabels, conns, labels>>' =
          <<shapes, shapeLabels, conns, labels>>]_vars

\* a first run has given some connection a label id it lacked
C11_Witness == evt.op = "migrate" /\ evt.changed /\ steps < MaxSteps

\* C14: whenever the editor is waiting for a connection target, the Escape
\* key or the close button of the shape panel returns it to idle: it is no
\* longer waiting and holds no pending source shape
C14_CancelEndsWaiting ==
    [][(isWaitingForTarget /\ (KeyEscape \/ PanelClose)) =>
          (~isWaitingForTarget' /\ overlaySourceShape'.st = "null")]_vars


\* a drag, an endpoint drag, a group drag or a rectangle selection has begun
\* and no pointer-up has ended it
Interacting ==
    \/ drag.isDraggingShape \/ drag.isDraggingEndpoint
    \/ sel.isDraggingGroup \/ sel.isSelecting

\* the saves a handler leaves to a continuation
DeferredSaves(q) == Cardinality({k \in 1..Len(q) : q[k] = <<"save">>})

\* C12: every pointer-up that ends a shape drag, an endpoint drag, a group
\* drag or a rectangle selection ends that interaction and causes exactly
\* one save of the document, counting the save it leaves to a continuation
C12_PointerUpSavesOnce ==
    [][(Interacting /\ \E inside \in BOOLEAN : MouseUp(inside))
          => /\ ~Interacting'
             /\ evt'.saves + DeferredSaves(jobs') - DeferredSaves(jobs) = 1]_vars

\* C13: after a pointer-up, released over the canvas or outside it, no shape
\* drag, pan, endpoint drag, group drag or rectangle selection is in progress
C13_PointerUpLeavesIdle ==
    [][(\E inside \in BOOLEAN : MouseUp(inside)) => ~InProgress']_vars


\* the bounds b moved by the vector d
TranslatedBounds(b, d) == Box(b.x + d[1], b.y + d[2], b.width, b.height)

\* C15: during a group drag, after each move event the bounds of every
\* selected shape are its bounds at the start of the drag moved by the one
\* delta from the drag-start pointer to the current pointer, whatever the
\* kind of the shape
C15_GroupDragRigid ==
    (evt.op = "move" /\ isActive /\ sel.isDraggingGroup)
        => \A id \in DOMAIN evt.groupStart :
              getShapeBounds(shapes[IndexOfId(shapes, id)])
                  = TranslatedBounds(evt.groupStart[id],
                                     <<evt.pt[1] - sel.dragStartPoint[1],
                                       evt.pt[2] - sel.dragStartPoint[2]>>)

\* C16: the recomputation of the connections of a moved shape is part of
\* the handling of the move event: none is left pending when a handler has
\* returned
C16_NoDeferredRecomputation ==
    \A k \in 1..Len(jobs) : jobs[k][1] # "update"

\* the selected shape of the single-shape drag
DraggedShape(sh) == sh[IndexOfId(sh, selectedShape.el.id)]

\* C17: on the move event in which a single-shape drag first exceeds the
\* drag threshold the shape stays where it was, whatever its kind
C17_NoJumpAtThreshold ==
    [][(drag.isMouseDown /\ ~drag.isDraggingShape /\ drag'.isDraggingShape)
          => getShapeBounds(DraggedShape(shapes'))
                 = getShapeBounds(DraggedShape(shapes))]_vars


\* the rectangle spanned by two corners
DragRectangle(a, b) ==
    <<Min2(a[1], b[1]), Min2(a[2], b[2]), Abs(b[1] - a[1]), Abs(b[2] - a[2])>>

\* the shapes whose bounds overlap the rectangle r
OverlappedShapes(sh, r) ==
    {sh[k].id : k \in {j \in 1..Len(sh) :
                          rectanglesIntersect(r, getShapeBounds(sh[j]))}}

\* C18: after every move event of a rectangle selection the selected set is
\* the set of the shapes whose bounds overlap the rectangle from the press
\* point to the current pointer, and holds no shape that only an earlier
\* rectangle of the drag overlapped
C18_SelectionIsOverlap ==
    [][(/\ isActive /\ sel.isSelecting /\ ~sel.isDraggingGroup
        /\ \E p \in Points : MouseMove(p))
          => selectedShapes' =
                 OverlappedShapes(shapes',
                                  DragRectangle(sel.startPoint, evt'.pt))]_vars


\* the line endpoints of the connections, as they are drawn
DrawnEndpoints(co) ==
    [k \in 1..Len(co) |-> <<co[k].x1, co[k].y1, co[k].x2, co[k].y2>>]

\* the line endpoints the current bounds of the shapes give the connections
AnchoredEndpoints(sc) ==
    DrawnEndpoints(
        updateConnections(sc, [k \in 1..Len(sc.conns) |-> sc.conns[k].id]).conns)

\* C19: when the pointer-up has completed a drag, a group drag or an
\* endpoint drag whose last move changed the scene, every connection runs
\* between the anchors computed from the current bounds of its source and
\* target shapes
C19_ConnectionsAnchored ==
    [][(/\ drag.isDraggingShape \/ drag.isDraggingEndpoint
           \/ sel.isDraggingGroup
        /\ evt.op = "move" /\ evt.changed
        /\ \E inside \in BOOLEAN : MouseUp(inside))
          => DrawnEndpoints(conns')
                 = AnchoredEndpoints(Scene(shapes', shapeLabels', conns',
                                           labels'))]_vars


\* for every end label, its offset from the centre of the bounds of the
\* shape at its end of the connection (<<>> for a centre label)
EndLabelOffsets(sc) ==
    [k \in 1..Len(sc.labels) |->
        LET l == sc.labels[k]
            ci == IndexOfId(sc.conns, l.id[2])
            owner == IF l.id[3] = "source" THEN sc.conns[ci].source
                     ELSE sc.conns[ci].target
            si == IndexOfId(sc.shapes, owner)
            b == getShapeBounds(sc.shapes[si])
        IN  IF l.id[3] = "center" \/ ci = 0 THEN <<>>
            ELSE IF si = 0 THEN <<>>
            ELSE <<l.x - (b.x + Quot(b.width, 2)),
                   l.y - (b.y + Quot(b.height, 2))>>]

\* C20: a move event of a shape drag leaves every end label at the offset
\* it had from the centre of its own shape: the labels of the dragged shape
\* follow it at their angle, and the labels at the other end do not change
C20_EndLabelKeepsOffset ==
    [][(drag'.isDraggingShape /\ \E p \in Points : MouseMove(p))
          => EndLabelOffsets(Scene(shapes', shapeLabels', conns', labels'))
                 = EndLabelOffsets(CurrentScene)]_vars


\* ------------------------------------------------------ label dragging
MaxLabelSteps == 4

\* pointer positions of a label drag, relative to the centre of the circle
\* the drag took at the press
Pulls == {<<60, 0>>, <<0, 60>>, <<-36, 48>>, <<30, -40>>}

\* getBoundingClientRect in canvas coordinates: the painted box, moved by
\* the translation of the transform if the element has one
PaintedBox(el) ==
    LET b == getBBox(el)
    IN  IF el.transform THEN Box(b.x + el.x, b.y + el.y, b.width, b.height)
        ELSE b

\* the shape a label belongs to: the source for a source label, the target
\* for every other label type; 0 if the connection or the shape is missing
LabelShapeIndex(sc, l) ==
    LET ci == IndexOfId(sc.conns, l.id[2])
    IN  IF ci = 0 THEN 0
        ELSE IndexOfId(sc.shapes, IF l.id[3] = "source" THEN sc.conns[ci].source
                                  ELSE sc.conns[ci].target)

\* Math.sqrt(dx * dx + dy * dy), at least 50
FallbackRadius(l, c) ==
    Max2(50, Isqrt((l.x - c[1]) * (l.x - c[1]) + (l.y - c[2]) * (l.y - c[2])))

\* the circle the mousedown listener of a label takes: <<centre, radius>>,
\* centre <<>> when it finds none
GrabbedCircle(sc, l) ==
    LET si == LabelShapeIndex(sc, l)
        b == getShapeBounds(sc.shapes[si])
        c == <<b.x + Quot(b.width, 2), b.y + Quot(b.height, 2)>>
        r == PaintedBox(sc.shapes[si])
        rc == <<r.x + Quot(r.width, 2), r.y + Quot(r.height, 2)>>
    IN  IF l.draggable = "makeLabelDraggable"
        THEN IF l.center # <<>> /\ l.radius # <<>>
             THEN <<l.center, l.radius[1]>>
             ELSE IF si = 0 THEN <<<<>>, drag.constraintRadius>>
             ELSE <<c, FallbackRadius(l, c)>>
        ELSE IF si = 0 THEN <<<<>>, drag.constraintRadius>>
        ELSE <<rc, FallbackRadius(l, rc)>>

\* the label after its mousedown: makeLabelDraggable stores the circle it
\* computed when the label had none
GrabbedLabel(sc, l) ==
    LET g == GrabbedCircle(sc, l)
    IN  IF /\ l.draggable = "makeLabelDraggable"
           /\ ~(l.center # <<>> /\ l.radius # <<>>)
           /\ g[1] # <<>>
        THEN [l EXCEPT !.center = g[1], !.radius = <<g[2]>>]
        ELSE l

\* a scene after a group drag of its first shape by d, the connections
\* updated by the continuation
GroupDragged(sc, d) ==
    LET id == sc.shapes[1].id
        initial == [i \in {id} |-> getShapePosition(sc.shapes[1])]
        moved == GroupMoved(sc.shapes, {id}, initial, d)
    IN  updateShapeConnections(Scene(moved, sc.shapeLabels, sc.conns, sc.labels),
                               moved[1])

\* a document of two connected shapes: just built, or after a group drag of
\* the first shape, and either of them saved and restored by a page load
LabelInit ==
    /\ \E kind \in Kinds, dragged \in BOOLEAN, restored \in BOOLEAN :
          LET made == ConnectedPair(kind)
              moved == IF dragged THEN GroupDragged(made, <<0, 60>>) ELSE made
              sc == IF restored THEN RestoredScene(saveTopology(moved))
                    ELSE moved
          IN  /\ shapes = sc.shapes
              /\ shapeLabels = sc.shapeLabels
              /\ conns = sc.conns
              /\ labels = sc.labels
              /\ store = saveAppState(moved, 2, 1)
    /\ shapeIdCounter = 2
    /\ connectionIdCounter = 1
    /\ file = NoTopology
    /\ FreshPage
    /\ call = NoCall

LabelCount == steps < MaxLabelSteps /\ steps' = steps + 1

\* what the label handlers never touch
LabelFrame ==
    UNCHANGED <<shapes, shapeLabels, conns, shapeIdCounter,
                connectionIdCounter, selectedShape, currentShape,
                overlaySourceShape, isWaitingForTarget, selectedConnection,
                panelConnection, isActive, selectedShapes, deleteModal,
                newModal, shapePanelOpen, file, last, sel, jobs, call, zoom>>

\* mousedown on the k-th connection label
LabelMouseDown(k) ==
    LET l == labels[k]
        g == GrabbedCircle(CurrentScene, l)
    IN
    /\ LabelCount
    /\ ~evt.pressed
    /\ l.draggable # ""
    /\ labels' = [labels EXCEPT ![k] = GrabbedLabel(CurrentScene, l)]
    /\ drag' = [drag EXCEPT !.label = l.id, !.shapeCenter = g[1],
                            !.constraintRadius = g[2]]
    /\ evt' = [NoEvent EXCEPT !.op = "labeldown", !.pt = <<l.x, l.y>>,
                              !.pressed = TRUE]
    /\ UNCHANGED store
    /\ LabelFrame

\* mousemove while a label is held: the label goes to the circle, at the
\* angle of the pointer
LabelMouseMove(pull) ==
    LET k == IndexOfId(labels, drag.label)
        c == drag.shapeCenter
        p == <<c[1] + pull[1], c[2] + pull[2]>>
        q == PointAtAngle(c, pull, drag.constraintRadius)
    IN
    /\ LabelCount
    /\ drag.label # NoId
    /\ c # <<>>
    /\ k # 0
    /\ labels' = [labels EXCEPT ![k] = [@ EXCEPT !.x = q[1], !.y = q[2]]]
    /\ evt' = [evt EXCEPT !.op = "labelmove", !.pt = p,
                          !.changed = (labels' # labels)]
    /\ UNCHANGED <<drag, store>>
    /\ LabelFrame

\* mouseup while a label is held: the drag ends and the document is saved
LabelMouseUp ==
    /\ LabelCount
    /\ drag.label # NoId
    /\ drag' = [NoDrag EXCEPT !.constraintRadius = drag.constraintRadius]
    /\ store' = saveAppState(CurrentScene, shapeIdCounter, connectionIdCounter)
    /\ evt' = [evt EXCEPT !.op = "labelup", !.pressed = FALSE, !.saves = 1,
                          !.changed = FALSE]
    /\ UNCHANGED labels
    /\ LabelFrame

LabelNext ==
    \/ \E k \in 1..Len(labels) : LabelMouseDown(k)
    \/ \E pull \in Pulls : LabelMouseMove(pull)
    \/ LabelMouseUp

LabelSpec == LabelInit /\ [][LabelNext]_vars



\* the label held by the label drag in progress
HeldLabel == labels[IndexOfId(labels, drag.label)]
IsEndLabel(l) == l.id[3] \in {"source", "target"}
DistSq(l, c) == (l.x - c[1]) * (l.x - c[1]) + (l.y - c[2]) * (l.y - c[2])

\* C21: after every move of the drag of an end label, created or restored,
\* the label is at its stored constraint radius from its stored constraint
\* centre
C21_EndLabelOnStoredCircle ==
    (evt.op = "labelmove" /\ IsEndLabel(HeldLabel))
        => /\ HeldLabel.center # <<>>
           /\ HeldLabel.radius # <<>>
           /\ DistSq(HeldLabel, HeldLabel.center)
                  = HeldLabel.radius[1] * HeldLabel.radius[1]

\* the midpoint of the line of the connection of label l
ConnectionMidpoint(l) ==
    LET c == conns[IndexOfId(conns, l.id[2])]
    IN  <<Quot(c.x1 + c.x2, 2), Quot(c.y1 + c.y2, 2)>>

\* C22: in every state the centre label of every connection is at the
\* midpoint of the two endpoints of the connection's line
C22_CenterLabelAtMidpoint ==
    \A k \in 1..Len(labels) :
        (labels[k].id[3] = "center" /\ HasId(conns, labels[k].id[2]))
            => <<labels[k].x, labels[k].y>> = ConnectionMidpoint(labels[k])


\* ------------------------------------------------------- anchor points
\* the bounding boxes handed to findClosestPoints: boxes as getShapeBounds
\* and the resize handles produce them, with positive even sizes
AnchorXs == {0, 40, 200}
AnchorYs == {0, 30}
AnchorSizes == {20, 50}
AnchorBoxes ==
    {Box(x, y, w, h) : x \in AnchorXs, y \in AnchorYs,
                       w \in AnchorSizes, h \in AnchorSizes}

\* everything but the function call stays as the page load left it
CallFrame ==
    UNCHANGED <<shapes, shapeLabels, conns, labels, shapeIdCounter,
                connectionIdCounter, selectedShape, currentShape,
                overlaySourceShape, isWaitingForTarget, selectedConnection,
                panelConnection, isActive, selectedShapes, deleteModal,
                newModal, store, shapePanelOpen, file, last, steps, drag,
                sel, jobs, evt, zoom>>

\* an empty page and a pending call of fn
EmptyPageCalling(fn, args) ==
    /\ shapes = <<>>
    /\ shapeLabels = <<>>
    /\ conns = <<>>
    /\ labels = <<>>
    /\ shapeIdCounter = 0
    /\ connectionIdCounter = 0
    /\ store = EmptyStore
    /\ file = NoTopology
    /\ FreshPage
    /\ call = [fn |-> fn, args |-> args, result |-> <<>>]

\* two boxes with distinct centres, about to be connected
AnchorInit ==
    \E sb \in AnchorBoxes, tb \in AnchorBoxes :
        /\ <<sb.centerX, sb.centerY>> # <<tb.centerX, tb.centerY>>
        /\ EmptyPageCalling("findClosestPoints", <<sb, tb>>)

\* the call of findClosestPoints returns
FindClosestPoints ==
    /\ call.fn = "findClosestPoints"
    /\ call.result = <<>>
    /\ call' = [call EXCEPT
                   !.result = <<findClosestPoints(call.args[1], call.args[2])>>]
    /\ CallFrame

AnchorNext == FindClosestPoints

AnchorSpec == AnchorInit /\ [][AnchorNext]_vars

\* p is on the outline of box b
OnBoundary(b, p) ==
    /\ b.x <= p[1] /\ p[1] <= b.x + b.width
    /\ b.y <= p[2] /\ p[2] <= b.y + b.height
    /\ \/ p[1] \in {b.x, b.x + b.width}
       \/ p[2] \in {b.y, b.y + b.height}

\* p is, up to the rounding of one coordinate to a whole pixel, on the ray
\* from the centre of box b towards the centre of box o
OnRay(b, o, p) ==
    LET dx == o.centerX - b.centerX
        dy == o.centerY - b.centerY
        px == p[1] - b.centerX
        py == p[2] - b.centerY
    IN  /\ Abs(px * dy - py * dx) < Max2(Abs(dx), Abs(dy))
        /\ px * dx + py * dy > 0

AnchorsReturned == call.fn = "findClosestPoints" /\ Len(call.result) = 1

\* C23: for two boxes with distinct centres each anchor lies on the
\* boundary of its own box, on the ray from that box's centre towards the
\* other centre; the boxes (0,0,50,50) and (200,0,50,50) give the source
\* anchor (50,25) and the target anchor (200,25)
C23_AnchorsOnBoundary ==
    AnchorsReturned =>
        LET sb == call.args[1]
            tb == call.args[2]
            r == call.result[1]
        IN  /\ OnBoundary(sb, r.sourcePoint)
            /\ OnRay(sb, tb, r.sourcePoint)
            /\ OnBoundary(tb, r.targetPoint)
            /\ OnRay(tb, sb, r.targetPoint)
            /\ (sb = Box(0, 0, 50, 50) /\ tb = Box(200, 0, 50, 50))
                   => (r.sourcePoint = <<50, 25>> /\ r.targetPoint = <<200, 25>>)

C23_Witness ==
    /\ AnchorsReturned
    /\ call.args = <<Box(0, 0, 50, 50), Box(200, 0, 50, 50)>>
    /\ call.result[1].sourcePoint = <<50, 25>>
    /\ call.result[1].targetPoint = <<200, 25>>


\* ------------------------------------------- alignment and distribution
MaxAlignSteps == 1

\* getShapeBounds of the alignment tools: the painted box, moved by the
\* translation of the transform if there is one; for a rect at its x and y
alignmentBounds(el) ==
    LET bbox == getBBox(el)
        x == IF el.tag = "rect" THEN el.x
             ELSE IF el.transform THEN bbox.x + el.x ELSE bbox.x
        y == IF el.tag = "rect" THEN el.y
             ELSE IF el.transform THEN bbox.y + el.y ELSE bbox.y
    IN  Box(x, y, bbox.width, bbox.height)

right(b) == b.x + b.width
bottom(b) == b.y + b.height

\* the switch of updateSiblingLabel for a rect of bounds b
AlignedLabelPlace(position, b) ==
    CASE position = "above" -> <<b.x + Quot(b.width, 2), b.y - LabelOffset>>
      [] position = "left" -> <<b.x - LabelOffset, b.y + Quot(b.height, 2)>>
      [] position = "right" -> <<right(b) + LabelOffset,
                                 b.y + Quot(b.height, 2)>>
      [] position = "center" -> <<b.x + Quot(b.width, 2),
                                  b.y + Quot(b.height, 2) + 5>>
      [] OTHER -> <<b.x + Quot(b.width, 2), bottom(b) + LabelOffset>>

\* updateSiblingLabel: the sibling label of a basic shape follows it
updateSiblingLabel(sl, el) ==
    LET i == SiblingLabelIndex(sl, el)
        place == AlignedLabelPlace(sl[i].position, alignmentBounds(el))
    IN  IF el.tag # "rect" \/ i = 0 THEN sl
        ELSE [sl EXCEPT ![i].x = place[1], ![i].y = place[2]]

\* moveShapeToPosition: a translate for a group, x and y for a rect, nothing
\* for a line; then the sibling label and the shape's connections
moveShapeToPosition(sc, id, x, y) ==
    LET i == IndexOfId(sc.shapes, id)
        el == sc.shapes[i]
        moved == IF el.tag = "g"
                 THEN [el EXCEPT !.transform = TRUE, !.x = x, !.y = y]
                 ELSE IF el.tag = "rect" THEN [el EXCEPT !.x = x, !.y = y]
                 ELSE el
    IN  updateShapeConnections(
            Scene([sc.shapes EXCEPT ![i] = moved],
                  updateSiblingLabel(sc.shapeLabels, moved), sc.conns, sc.labels),
            moved)

\* shapeIds.map(getElementById).filter(Boolean)
ResolvedIds(sc, shapeIds) ==
    SelectSeq(shapeIds, LAMBDA id : HasId(sc.shapes, id))

\* bounds of the resolved shapes, taken before any of them moves
BoundsOfIds(sc, ids) ==
    [k \in 1..Len(ids) |-> alignmentBounds(sc.shapes[IndexOfId(sc.shapes, ids[k])])]

MinOver(bounds, f(_)) ==
    CHOOSE v \in {f(bounds[k]) : k \in 1..Len(bounds)} :
        \A k \in 1..Len(bounds) : v <= f(bounds[k])
MaxOver(bounds, f(_)) ==
    CHOOSE v \in {f(bounds[k]) : k \in 1..Len(bounds)} :
        \A k \in 1..Len(bounds) : v >= f(bounds[k])
LeftOf(b) == b.x
TopOf(b) == b.y

\* the forEach of an align or distribute call: the k-th shape to target[k]
RECURSIVE MoveEach(_, _, _, _)
MoveEach(sc, ids, target, k) ==
    IF k > Len(ids) THEN sc
    ELSE CHOOSE after \in
             {MoveEach(moved, ids, target, k + 1) :
                 moved \in {moveShapeToPosition(sc, ids[k], target[k][1],
                                                target[k][2])}} : TRUE

\* whether an align call gets past both of its early returns
Aligns(sc, shapeIds) == Len(shapeIds) >= 2 /\ Len(ResolvedIds(sc, shapeIds)) >= 2
\* whether a distribute call gets past both of its early returns
Distributes(sc, shapeIds) == Len(shapeIds) >= 3 /\ Len(ResolvedIds(sc, shapeIds)) >= 3

alignHorizontal(sc, shapeIds, alignment) ==
    LET ids == ResolvedIds(sc, shapeIds)
        bounds == BoundsOfIds(sc, ids)
        referenceX ==
            IF alignment = "left" THEN MinOver(bounds, LeftOf)
            ELSE IF alignment = "right" THEN MaxOver(bounds, right)
            ELSE Quot(MinOver(bounds, LeftOf) + MaxOver(bounds, right), 2)
        newX(b) == IF alignment = "left" THEN referenceX
                   ELSE IF alignment = "right" THEN referenceX - b.width
                   ELSE referenceX - Quot(b.width, 2)
    IN  IF ~Aligns(sc, shapeIds) THEN sc
        ELSE MoveEach(sc, ids,
                      [k \in 1..Len(ids) |-> <<newX(bounds[k]), bounds[k].y>>], 1)

alignVertical(sc, shapeIds, alignment) ==
    LET ids == ResolvedIds(sc, shapeIds)
        bounds == BoundsOfIds(sc, ids)
        referenceY ==
            IF alignment = "top" THEN MinOver(bounds, TopOf)
            ELSE IF alignment = "bottom" THEN MaxOver(bounds, bottom)
            ELSE Quot(MinOver(bounds, TopOf) + MaxOver(bounds, bottom), 2)
        newY(b) == IF alignment = "top" THEN referenceY
                   ELSE IF alignment = "bottom" THEN referenceY - b.height
                   ELSE referenceY - Quot(b.height, 2)
    IN  IF ~Aligns(sc, shapeIds) THEN sc
        ELSE MoveEach(sc, ids,
                      [k \in 1..Len(ids) |-> <<bounds[k].x, newY(bounds[k])>>], 1)

\* Array.prototype.sort by key: the indices in ascending key order, equal
\* keys in their original order
SortedBy(keys) ==
    LET before(i, j) == keys[i] < keys[j] \/ (keys[i] = keys[j] /\ i < j)
        rank(i) == 1 + Cardinality({j \in 1..Len(keys) : before(j, i)})
    IN  [r \in 1..Len(keys) |-> CHOOSE i \in 1..Len(keys) : rank(i) = r]

RECURSIVE SumTo(_, _)
SumTo(sizes, k) == IF k = 0 THEN 0 ELSE sizes[k] + SumTo(sizes, k - 1)

distributeHorizontal(sc, shapeIds) ==
    LET ids == ResolvedIds(sc, shapeIds)
        unsorted == BoundsOfIds(sc, ids)
        order == SortedBy([k \in 1..Len(ids) |-> unsorted[k].x])
        n == Len(ids)
        bounds == [k \in 1..n |-> unsorted[order[k]]]
        widths == [k \in 1..n |-> bounds[k].width]
        leftmostX == bounds[1].x
        rightmostX == right(bounds[n])
        totalGap == rightmostX - leftmostX - SumTo(widths, n)
        spacing == Quot(totalGap, n - 1)
    IN  IF ~Distributes(sc, shapeIds) THEN sc
        ELSE MoveEach(sc, [k \in 1..n |-> ids[order[k]]],
                      [k \in 1..n |->
                          <<leftmostX + SumTo(widths, k - 1) + (k - 1) * spacing,
                            bounds[k].y>>], 1)

distributeVertical(sc, shapeIds) ==
    LET ids == ResolvedIds(sc, shapeIds)
        unsorted == BoundsOfIds(sc, ids)
        order == SortedBy([k \in 1..Len(ids) |-> unsorted[k].y])
        n == Len(ids)
        bounds == [k \in 1..n |-> unsorted[order[k]]]
        heights == [k \in 1..n |-> bounds[k].height]
        topmostY == bounds[1].y
        bottommostY == bottom(bounds[n])
        totalGap == bottommostY - topmostY - SumTo(heights, n)
        spacing == Quot(totalGap, n - 1)
    IN  IF ~Distributes(sc, shapeIds) THEN sc
        ELSE MoveEach(sc, [k \in 1..n |-> ids[order[k]]],
                      [k \in 1..n |->
                          <<bounds[k].x,
                            topmostY + SumTo(heights, k - 1) + (k - 1) * spacing>>], 1)

\* where the three shapes of the document were dropped
AlignDrops == <<<<30, 20>>, <<130, 80>>, <<290, 220>>>>
\* the id of a shape that is not in the document
MissingShape == ShapeIdOf(9)
\* the id arrays handed to the tools: any of the three shapes, with or
\* without the missing one
IdArrays ==
    {SelectSeq(<<ShapeIdOf(1), ShapeIdOf(2), ShapeIdOf(3), MissingShape>>,
               LAMBDA id : id \in S) :
        S \in SUBSET {ShapeIdOf(1), ShapeIdOf(2), ShapeIdOf(3), MissingShape}}

\* three dropped shapes, the first labelled if it is a rectangle, and a
\* connection from the first to the second
AlignScene(kinds) ==
    LET s1 == createShape(kinds[1], AlignDrops[1], 0)
        s2 == createShape(kinds[2], AlignDrops[2], 1)
        s3 == createShape(kinds[3], AlignDrops[3], 2)
        dropped == Scene(<<s1, s2, s3>>, <<>>, <<>>, <<>>)
        labelled == IF kinds[1] = "rect" THEN updateShapeLabel(dropped, s1, "A")
                    ELSE dropped
    IN  createConnection(labelled, 0, labelled.shapes[1], TRUE,
                         labelled.shapes[2]).scene

AlignInit ==
    /\ \E kinds \in [1..3 -> Kinds] :
          LET sc == AlignScene(kinds)
          IN  /\ shapes = sc.shapes
              /\ shapeLabels = sc.shapeLabels
              /\ conns = sc.conns
              /\ labels = sc.labels
              /\ store = saveAppState(sc, 3, 1)
    /\ shapeIdCounter = 3
    /\ connectionIdCounter = 1
    /\ file = NoTopology
    /\ FreshPage
    /\ call = NoCall

\* what the alignment tools never touch
AlignFrame ==
    UNCHANGED <<shapeIdCounter, connectionIdCounter, selectedShape,
                currentShape, overlaySourceShape, isWaitingForTarget,
                selectedConnection, panelConnection, isActive, selectedShapes,
                deleteModal, newModal, shapePanelOpen, file, last, drag, sel,
                jobs, evt, zoom>>

\* a call of one of the tools: the scene it leaves, and saveAppState unless
\* it returned early
AlignCall(fn, args, sc, ran) ==
    /\ steps < MaxAlignSteps
    /\ steps' = steps + 1
    /\ call' = [fn |-> fn, args |-> args, result |-> <<>>]
    /\ \E after \in {sc} :
          /\ shapes' = after.shapes
          /\ shapeLabels' = after.shapeLabels
          /\ conns' = after.conns
          /\ labels' = after.labels
          /\ store' = IF ran
                      THEN saveAppState(after, shapeIdCounter, connectionIdCounter)
                      ELSE store
    /\ AlignFrame

AlignHorizontal(shapeIds, alignment) ==
    AlignCall("alignHorizontal", <<shapeIds, alignment>>,
              alignHorizontal(CurrentScene, shapeIds, alignment),
              Aligns(CurrentScene, shapeIds))

AlignVertical(shapeIds, alignment) ==
    AlignCall("alignVertical", <<shapeIds, alignment>>,
              alignVertical(CurrentScene, shapeIds, alignment),
              Aligns(CurrentScene, shapeIds))

DistributeHorizontal(shapeIds) ==
    AlignCall("distributeHorizontal", <<shapeIds>>,
              distributeHorizontal(CurrentScene, shapeIds),
              Distributes(CurrentScene, shapeIds))

DistributeVertical(shapeIds) ==
    AlignCall("distributeVertical", <<shapeIds>>,
              distributeVertical(CurrentScene, shapeIds),
              Distributes(CurrentScene, shapeIds))

AlignNext ==
    \/ \E shapeIds \in IdArrays, a \in {"left", "center", "right"} :
           AlignHorizontal(shapeIds, a)
    \/ \E shapeIds \in IdArrays, a \in {"top", "middle", "bottom"} :
           AlignVertical(shapeIds, a)
    \/ \E shapeIds \in IdArrays : DistributeHorizontal(shapeIds)
    \/ \E shapeIds \in IdArrays : DistributeVertical(shapeIds)

AlignSpec == AlignInit /\ [][AlignNext]_vars


\* the bounds, recomputed in the given scene, of the shapes a call resolved
CalledIds == ResolvedIds(CurrentScene, call.args[1])
BoundsNow(id) == alignmentBounds(shapes[IndexOfId(shapes, id)])
BoundsAfter(id) == alignmentBounds(shapes'[IndexOfId(shapes', id)])
AlignedHorizontally ==
    call.fn = "alignHorizontal" /\ Aligns(CurrentScene, call.args[1])
DistributedHorizontally ==
    call.fn = "distributeHorizontal" /\ Distributes(CurrentScene, call.args[1])

\* C24: after alignHorizontal(ids, "center") on two or more shapes of any
\* kinds, the recomputed bounds of all aligned shapes have the same centerX
C24_CentersAligned ==
    (AlignedHorizontally /\ call.args[2] = "center")
        => \A k \in 1..Len(CalledIds) :
              BoundsNow(CalledIds[k]).centerX = BoundsNow(CalledIds[1]).centerX

\* the step is a call of fn that got past its early returns
Ran(fn) ==
    /\ call'.fn = fn
    /\ IF fn \in {"alignHorizontal", "alignVertical"}
       THEN Aligns(CurrentScene, call'.args[1])
       ELSE Distributes(CurrentScene, call'.args[1])
IdsOfStep == ResolvedIds(CurrentScene, call'.args[1])

\* C25: an align operation changes only the coordinate along its axis:
\* alignHorizontal leaves the top (y) of every aligned shape's bounds as it
\* was, alignVertical leaves the left (x) as it was
C25_CrossAxisUntouched ==
    [][/\ Ran("alignHorizontal")
          => \A k \in 1..Len(IdsOfStep) :
                BoundsAfter(IdsOfStep[k]).y = BoundsNow(IdsOfStep[k]).y
       /\ Ran("alignVertical")
          => \A k \in 1..Len(IdsOfStep) :
                BoundsAfter(IdsOfStep[k]).x = BoundsNow(IdsOfStep[k]).x]_vars

\* the resolved shapes' bounds in left-to-right order
LeftToRight ==
    LET unsorted == BoundsOfIds(CurrentScene, CalledIds)
        order == SortedBy([k \in 1..Len(CalledIds) |-> unsorted[k].x])
    IN  [k \in 1..Len(CalledIds) |-> unsorted[order[k]]]

\* C26: after distributeHorizontal on three or more shapes the gap between
\* a shape's right edge and the next shape's left edge, in left-to-right
\* order, is the same for all adjacent pairs
C26_EqualGaps ==
    DistributedHorizontally
        => \A k \in 1..(Len(CalledIds) - 1) :
              LeftToRight[k + 1].x - right(LeftToRight[k])
                  = LeftToRight[2].x - right(LeftToRight[1])

\* the ids of the step's shapes in ascending order of the key before it
OrderOfStep(key(_)) ==
    LET order == SortedBy([k \in 1..Len(IdsOfStep) |-> key(BoundsNow(IdsOfStep[k]))])
    IN  [k \in 1..Len(IdsOfStep) |-> IdsOfStep[order[k]]]
Unmoved(id) ==
    /\ BoundsAfter(id) = BoundsNow(id)
    /\ shapes'[IndexOfId(shapes', id)] = shapes[IndexOfId(shapes, id)]

\* C27: a distribute operation leaves the first and the last shape, in
\* sorted order along the axis, where they were
C27_EndsStay ==
    [][/\ Ran("distributeHorizontal")
          => /\ Unmoved(OrderOfStep(LeftOf)[1])
             /\ Unmoved(OrderOfStep(LeftOf)[Len(IdsOfStep)])
       /\ Ran("distributeVertical")
          => /\ Unmoved(OrderOfStep(TopOf)[1])
             /\ Unmoved(OrderOfStep(TopOf)[Len(IdsOfStep)])]_vars

\* the call of the step names too few shapes or an id that is no shape
InvalidInput ==
    \/ call'.fn \in {"alignHorizontal", "alignVertical"} /\ Len(call'.args[1]) < 2
    \/ call'.fn \in {"distributeHorizontal", "distributeVertical"}
          /\ Len(call'.args[1]) < 3
    \/ \E k \in 1..Len(call'.args[1]) : ~HasId(shapes, call'.args[1][k])

\* C28: an align call with fewer than 2 shapes, a distribute call with
\* fewer than 3, or either call with an id that is no live shape moves no
\* shape, no label and no connection
C28_InvalidInputNoOp ==
    [][(call'.fn # "" /\ InvalidInput)
          => UNCHANGED <<shapes, shapeLabels, conns, labels>>]_vars


\* ------------------------------------------------ bounds under a move
\* the k-th shape is the same element before and after the step and what
\* it paints has moved, by a drag of the shape and not of a line endpoint
Translated(k) ==
    /\ ~drag.isDraggingEndpoint
    /\ k <= Len(shapes')
    /\ shapes'[k].id = shapes[k].id
    /\ PaintedBox(shapes'[k]) # PaintedBox(shapes[k])

\* by how much the k-th shape has been translated on the canvas
Translation(k) ==
    <<PaintedBox(shapes'[k]).x - PaintedBox(shapes[k]).x,
      PaintedBox(shapes'[k]).y - PaintedBox(shapes[k]).y>>

\* C29: for every shape kind, when a move event translates a shape by
\* (dx, dy) the bounds the resolver returns for it change by exactly
\* (dx, dy) in position and centre, with the same width and height
C29_BoundsFollowTranslation ==
    [][\A k \in 1..Len(shapes) :
          Translated(k)
              => getShapeBounds(shapes'[k])
                     = TranslatedBounds(getShapeBounds(shapes[k]),
                                        Translation(k))]_vars


\* ------------------------------------------- bounds of a parsed element
\* a parsed attribute is <<n>> for a number and <<>> for NaN, the value
\* parseFloat gives for a missing or malformed attribute; arithmetic on NaN
\* gives NaN
NaN == <<>>
Num(n) == <<n>>
Plus(a, b) == IF a = NaN \/ b = NaN THEN NaN ELSE Num(a[1] + b[1])
Minus(a, b) == IF a = NaN \/ b = NaN THEN NaN ELSE Num(a[1] - b[1])
Half(a) == IF a = NaN THEN NaN ELSE Num(Quot(a[1], 2))
MathMin(a, b) == IF a = NaN \/ b = NaN THEN NaN ELSE Num(Min2(a[1], b[1]))
MathMax(a, b) == IF a = NaN \/ b = NaN THEN NaN ELSE Num(Max2(a[1], b[1]))
\* parseFloat(...) || fallback
OrElse(a, fallback) == IF a = NaN \/ a = Num(0) THEN Num(fallback) ELSE a

BoundsObject(x, y, w, h, cx, cy) ==
    [x |-> x, y |-> y, width |-> w, height |-> h, centerX |-> cx, centerY |-> cy]

\* bounds of a segment given by four parsed coordinates
ParsedLineBounds(n, padding) ==
    LET minX == MathMin(n[1], n[3])
        maxX == MathMax(n[1], n[3])
        minY == MathMin(n[2], n[4])
        maxY == MathMax(n[2], n[4])
        grow == Num(2 * padding)
    IN  BoundsObject(Minus(minX, Num(padding)), Minus(minY, Num(padding)),
                     Plus(Minus(maxX, minX), grow), Plus(Minus(maxY, minY), grow),
                     Half(Plus(n[1], n[3])), Half(Plus(n[2], n[4])))

\* getShapeBounds on an element whose attributes may not parse. The node
\* carries its tag, its data-shape-type, whether it has a translate and an
\* inner svg, and four parsed numbers: x, y, width, height of a rect; cx,
\* cy, r of a circle; x1, y1, x2, y2 of a line or of the line of an arrow;
\* the translation and the svg width and height of any other group.
\* The value is <<>> for null and <<bounds>> for a bounds object.
getShapeBoundsParsed(node) ==
    LET n == node.num
        tx == IF node.transform THEN n[1] ELSE Num(0)
        ty == IF node.transform THEN n[2] ELSE Num(0)
        width == IF node.svg THEN OrElse(n[3], TargetSize) ELSE Num(TargetSize)
        height == IF node.svg THEN Plus(OrElse(n[4], TargetSize), Num(LabelAllowance))
                  ELSE Num(DefaultGroupHeight)
    IN  IF node.tagName = "g"
        THEN IF node.dataType = "arrow"
             THEN <<ParsedLineBounds(n, ArrowPadding)>>
             ELSE <<BoundsObject(tx, ty, width, height,
                                 Plus(tx, Half(width)), Plus(ty, Half(height)))>>
        ELSE IF node.tagName = "line" THEN <<ParsedLineBounds(n, LinePadding)>>
        ELSE IF node.tagName = "circle"
        THEN <<BoundsObject(Minus(n[1], n[3]), Minus(n[2], n[3]),
                            Plus(n[3], n[3]), Plus(n[3], n[3]), n[1], n[2])>>
        ELSE IF node.tagName = "rect"
        THEN <<BoundsObject(n[1], n[2], n[3], n[4],
                            Plus(n[1], Half(n[3])), Plus(n[2], Half(n[4])))>>
        ELSE <<>>

\* what parseFloat makes of an attribute: NaN or one of two numbers
ParsedValues == {NaN, Num(10), Num(40)}
\* tag and data-shape-type of the elements handed to the resolver; the
\* polygon is of no kind the resolver knows
NodeKinds ==
    {<<"rect", "">>, <<"circle", "">>, <<"line", "">>, <<"g", "arrow">>,
     <<"g", "router">>, <<"polygon", "">>}

BoundsInit ==
    \E kind \in NodeKinds, num \in [1..4 -> ParsedValues], transform \in BOOLEAN :
        /\ transform => kind = <<"g", "router">>
        /\ EmptyPageCalling("getShapeBounds",
               <<[tagName |-> kind[1], dataType |-> kind[2], num |-> num,
                  transform |-> transform, svg |-> kind = <<"g", "router">>]>>)

\* the call of getShapeBounds returns
GetShapeBounds ==
    /\ call.fn = "getShapeBounds"
    /\ call.result = <<>>
    /\ call' = [call EXCEPT !.result = <<getShapeBoundsParsed(call.args[1])>>]
    /\ CallFrame

BoundsNext == GetShapeBounds

BoundsSpec == BoundsInit /\ [][BoundsNext]_vars

BoundsReturned == call.fn = "getShapeBounds" /\ Len(call.result) = 1

\* the element is of no kind the resolver knows
UnknownKind(node) == node.tagName \notin {"g", "line", "circle", "rect"}
\* an attribute the resolver reads for the element's position does not parse
Unparsable(node) ==
    IF node.tagName = "g" /\ node.dataType # "arrow"
    THEN node.transform /\ (node.num[1] = NaN \/ node.num[2] = NaN)
    ELSE IF node.tagName = "circle" THEN \E k \in 1..3 : node.num[k] = NaN
    ELSE \E k \in 1..4 : node.num[k] = NaN

\* C30: for an element of unknown kind or with unparsable position
\* attributes the resolver returns null; it never returns a bounds object
\* with a non-numeric field
C30_NullNotNaN ==
    BoundsReturned =>
        LET node == call.args[1]
            ret == call.result[1]
        IN  /\ (UnknownKind(node) \/ Unparsable(node)) => ret = <<>>
            /\ ret # <<>> => \A f \in DOMAIN ret[1] : ret[1][f] # NaN


\* --------------------------------------------------- cascades of delete
\* the shapes the step removes from the document
ShapesRemoved == IdsOf(shapes) \ IdsOf(shapes')

\* C33: a delete action (the Delete key on the selected shape, or the
\* confirmed delete of the selected shapes) that removes a shape removes
\* the label owned by that shape too
C33_DeleteRemovesOwnedLabel ==
    [][last'.op \in {"deleteShape", "confirmDelete"}
          => \A k \in 1..Len(shapeLabels') :
                shapeLabels'[k].shapeId \notin ShapesRemoved]_vars


\* a document of two connected shapes and a duplicate of the first of them,
\* as the duplicate button left it or as a page load restored it
DeleteInit ==
    /\ \E kind \in Kinds, restored \in BOOLEAN :
          LET made == ConnectedPair(kind)
              copied == duplicateShape(made, 2, made.shapes[1].id)
              sc == IF restored THEN RestoredScene(saveTopology(copied))
                    ELSE copied
          IN  /\ shapes = sc.shapes
              /\ shapeLabels = sc.shapeLabels
              /\ conns = sc.conns
              /\ labels = sc.labels
              /\ store = saveAppState(copied, 3, 1)
    /\ shapeIdCounter = 3
    /\ connectionIdCounter = 1
    /\ file = NoTopology
    /\ FreshPage
    /\ call = NoCall

\* selecting and deleting, by the Delete key or through the delete modal
DeleteNext ==
    \/ \E i \in 1..Len(shapes) : ShapePress(i)
    \/ \E r \in SelectionRects : CanvasClick(r)
    \/ ToggleSelectionMode
    \/ KeyDelete
    \/ ConfirmDelete
    \/ CancelDelete

DeleteSpec == DeleteInit /\ [][DeleteNext]_vars

\* the shapes the delete action of the step deletes: the selected shape of
\* the Delete key, the selected shapes of the confirmed delete
ShapesDeleted ==
    IF last'.op = "deleteShape" THEN {Deref(selectedShape).id}
    ELSE selectedShapes \cap IdsOf(shapes)

\* C35: the deletion of a shape removes only connections that name that
\* shape as source or target, whether the shape was dropped, duplicated,
\* restored or imported
C35_OnlyOwnConnectionsRemoved ==
    [][last'.op \in {"deleteShape", "confirmDelete"}
          => \A j \in 1..Len(conns) :
                conns[j].id \in last'.removed
                    => (conns[j].source \in ShapesDeleted
                        \/ conns[j].target \in ShapesDeleted)]_vars


\* C36: the deletion of a connection, directly or with one of its shapes,
\* removes its source, target and center labels: every connection label of
\* the document belongs to a connection of the document
C36_LabelsOfLiveConnections ==
    \A k \in 1..Len(labels) : HasId(conns, labels[k].id[2])


\* C40: after the clear-canvas action or a confirmed new document the scene
\* has no shapes, no connections, no connection labels and no shape labels
C40_ClearedSceneEmpty ==
    last.op \in {"clearCanvas", "confirmNew"}
        => (shapes = <<>> /\ conns = <<>> /\ labels = <<>> /\ shapeLabels = <<>>)


\* C39: whenever selection mode is inactive its coordinator is idle: the
\* selected set is empty and neither a rectangle selection nor a group drag
\* is in progress, also when the mode is switched off in mid-gesture
C39_InactiveSelectionIdle ==
    ~isActive => (selectedShapes = {} /\ ~sel.isSelecting /\ ~sel.isDraggingGroup)


\* ------------------------------------------------- the store that fails
\* how localStorage behaves during a call: "ok"; "quota", setItem throws;
\* "denied", every access throws; "corrupt", the topology key holds text
\* that JSON.parse rejects
StoreModes == {"ok", "quota", "denied", "corrupt"}
getItemThrows(mode) == mode = "denied"
setItemThrows(mode) == mode \in {"denied", "quota"}
removeItemThrows(mode) == mode = "denied"
parseThrows(mode) == mode = "corrupt"

\* how a call ends: it returns a value, or an exception leaves it
Returned(value) == [threw |-> FALSE, value |-> value]
Thrown == [threw |-> TRUE, value |-> <<>>]

\* saveAppState: each of its writes sits in a try block of its own
trySaveAppState(mode, st, sc, shapeCounter, connectionCounter) ==
    IF setItemThrows(mode) THEN [out |-> Returned(FALSE), store |-> st]
    ELSE [out |-> Returned(TRUE),
          store |-> saveAppState(sc, shapeCounter, connectionCounter)]

\* loadTopology of the store: null when the read or the parse throws, and
\* when nothing is saved
loadTopology(mode, st) ==
    IF getItemThrows(mode) \/ ~st.saved \/ parseThrows(mode)
    THEN Returned(<<>>)
    ELSE Returned(<<st.topology>>)

\* loadShapeCounter, loadConnectionCounter: null when the read throws
loadCounter(mode, st, saved) ==
    IF getItemThrows(mode) \/ ~st.saved THEN <<>> ELSE <<saved>>

\* clearStorage
clearStorage(mode, st) ==
    IF removeItemThrows(mode) THEN [out |-> Returned(FALSE), store |-> st]
    ELSE [out |-> Returned(TRUE), store |-> EmptyStore]

\* hasSavedData reads the topology key outside any try block
hasSavedData(mode, st) ==
    IF getItemThrows(mode) THEN Thrown ELSE Returned(st.saved)

\* restoreAppState on the page sc with the given counters
restoreAppState(mode, st, sc, shapeCounter, connectionCounter) ==
    LET has == hasSavedData(mode, st)
        savedCounter == loadCounter(mode, st, st.shapeCounter)
        savedConnectionCounter == loadCounter(mode, st, st.connectionCounter)
        topology == loadTopology(mode, st).value
        same == [out |-> has, scene |-> sc, shapeCounter |-> shapeCounter,
                 connectionCounter |-> connectionCounter]
    IN  IF has.threw \/ ~has.value THEN same
        ELSE [out |-> Returned(<<>>),
              scene |-> IF topology = <<>> THEN sc
                        ELSE RestoredScene(topology[1]),
              shapeCounter |-> IF savedCounter = <<>> THEN shapeCounter
                               ELSE savedCounter[1],
              connectionCounter |->
                  IF savedConnectionCounter = <<>> THEN connectionCounter
                  ELSE savedConnectionCounter[1]]

StoreCalls == {"saveAppState", "loadTopology", "clearStorage", "hasSavedData",
               "restoreAppState"}

\* a page about to call fn of the storage service while the store is in
\* some mode: a freshly loaded page for restoreAppState, a drawn one otherwise
StoreInit ==
    /\ \E kind \in Kinds, mode \in StoreModes, fn \in StoreCalls,
          saved \in BOOLEAN :
          LET made == ConnectedPair(kind)
              sc == IF fn = "restoreAppState" THEN EmptyScene ELSE made
          IN  /\ mode = "corrupt" => saved
              /\ shapes = sc.shapes /\ shapeLabels = sc.shapeLabels
              /\ conns = sc.conns /\ labels = sc.labels
              /\ shapeIdCounter = (IF fn = "restoreAppState" THEN 0 ELSE 2)
              /\ connectionIdCounter = (IF fn = "restoreAppState" THEN 0 ELSE 1)
              /\ store = IF saved THEN saveAppState(made, 2, 1) ELSE EmptyStore
              /\ call = [fn |-> fn, args |-> <<mode, sc>>, result |-> <<>>]
    /\ file = NoTopology
    /\ FreshPage

StoreFrame ==
    UNCHANGED <<selectedShape, currentShape, overlaySourceShape,
                isWaitingForTarget, selectedConnection, panelConnection,
                isActive, selectedShapes, deleteModal, newModal,
                shapePanelOpen, file, last, steps, drag, sel, jobs, evt,
                zoom>>
SceneFrame ==
    UNCHANGED <<shapes, shapeLabels, conns, labels, shapeIdCounter,
                connectionIdCounter>>
Pending(fn) == call.fn = fn /\ call.result = <<>>

SaveAppStateCall ==
    LET r == trySaveAppState(call.args[1], store, CurrentScene, shapeIdCounter,
                             connectionIdCounter)
    IN  /\ Pending("saveAppState")
        /\ call' = [call EXCEPT !.result = <<r.out>>]
        /\ store' = r.store
        /\ SceneFrame
        /\ StoreFrame

LoadTopologyCall ==
    /\ Pending("loadTopology")
    /\ call' = [call EXCEPT !.result = <<loadTopology(call.args[1], store)>>]
    /\ UNCHANGED store
    /\ SceneFrame
    /\ StoreFrame

ClearStorageCall ==
    LET r == clearStorage(call.args[1], store)
    IN  /\ Pending("clearStorage")
        /\ call' = [call EXCEPT !.result = <<r.out>>]
        /\ store' = r.store
        /\ SceneFrame
        /\ StoreFrame

HasSavedDataCall ==
    /\ Pending("hasSavedData")
    /\ call' = [call EXCEPT !.result = <<hasSavedData(call.args[1], store)>>]
    /\ UNCHANGED store
    /\ SceneFrame
    /\ StoreFrame

RestoreAppStateCall ==
    LET r == restoreAppState(call.args[1], store, CurrentScene, shapeIdCounter,
                             connectionIdCounter)
    IN  /\ Pending("restoreAppState")
        /\ call' = [call EXCEPT !.result = <<r.out>>]
        /\ SetScene(r.scene)
        /\ shapeIdCounter' = r.shapeCounter
        /\ connectionIdCounter' = r.connectionCounter
        /\ UNCHANGED store
        /\ StoreFrame

StoreNext ==
    \/ SaveAppStateCall
    \/ LoadTopologyCall
    \/ ClearStorageCall
    \/ HasSavedDataCall
    \/ RestoreAppStateCall

StoreSpec == StoreInit /\ [][StoreNext]_vars

\* the store access the call makes fails in the mode
StoreFails(fn, mode) ==
    CASE fn = "saveAppState" -> setItemThrows(mode)
      [] fn = "clearStorage" -> removeItemThrows(mode)
      [] fn = "hasSavedData" -> getItemThrows(mode)
      [] OTHER -> getItemThrows(mode) \/ parseThrows(mode)

\* C31: a call of the storage service whose store access fails returns to
\* its caller without an exception and leaves the scene as it was
C31_StoreFailureCaught ==
    (call.fn \in StoreCalls /\ call.result # <<>>
        /\ StoreFails(call.fn, call.args[1]))
        => (~call.result[1].threw /\ CurrentScene = call.args[2])


\* ------------------------------------------------------- zoom at startup
MaxZoomLevel == 2
MaxStartupSteps == 6
ZoomLevels == (ZoomDefault - MaxZoomLevel)..(ZoomDefault + MaxZoomLevel)

\* saveZoom writes currentZoom.toString() under the zoom key
saveZoom(z) == [z EXCEPT !.saved = <<z.currentZoom>>]
\* loadZoom: parseFloat of the text under the key, null without one
loadZoom(z) == z.saved
\* updateZoom applies the zoom to the canvas and saves it
updateZoom(z) == saveZoom(z)
\* zoomIn, zoomOut: one step (levels within ZOOM_CONFIG.MIN and MAX)
zoomIn(z) == updateZoom([z EXCEPT !.currentZoom = @ + 1])
zoomOut(z) == updateZoom([z EXCEPT !.currentZoom = @ - 1])
resetZoom(z) == updateZoom([z EXCEPT !.currentZoom = ZoomDefault])
\* the zoom part of restoreAppState: nothing without a saved topology
restoreZoom(z, st) ==
    IF st.saved /\ loadZoom(z) # <<>>
    THEN [z EXCEPT !.currentZoom = loadZoom(z)[1]]
    ELSE z

\* the page starts to load what an earlier session left in the store: init
\* is about to call resetZoom
Loading(saved) == [currentZoom |-> ZoomDefault, saved |-> saved,
                   pc |-> "resetZoom", previous |-> saved]

StartupInit ==
    /\ \E kind \in Kinds, hasTopology \in BOOLEAN,
          saved \in {<<>>} \cup {<<k>> : k \in ZoomLevels} :
          /\ hasTopology => saved # <<>>
          /\ store = IF hasTopology THEN saveAppState(ConnectedPair(kind), 2, 1)
                     ELSE EmptyStore
          /\ zoom = Loading(saved)
    /\ shapes = <<>>
    /\ shapeLabels = <<>>
    /\ conns = <<>>
    /\ labels = <<>>
    /\ shapeIdCounter = 0
    /\ connectionIdCounter = 0
    /\ selectedShape = NullRef
    /\ currentShape = NullRef
    /\ overlaySourceShape = NullRef
    /\ isWaitingForTarget = FALSE
    /\ selectedConnection = NullConn
    /\ panelConnection = NullConn
    /\ isActive = FALSE
    /\ selectedShapes = {}
    /\ deleteModal = FALSE
    /\ newModal = FALSE
    /\ shapePanelOpen = FALSE
    /\ file = NoTopology
    /\ last = Step("init")
    /\ steps = 0
    /\ drag = NoDrag
    /\ sel = NoSel
    /\ jobs = <<>>
    /\ call = NoCall
    /\ evt = NoEvent

StartupCount == steps < MaxStartupSteps /\ steps' = steps + 1
ZoomFrame ==
    UNCHANGED <<shapes, shapeLabels, conns, labels, shapeIdCounter,
                connectionIdCounter, selectedShape, currentShape,
                overlaySourceShape, isWaitingForTarget, selectedConnection,
                panelConnection, isActive, selectedShapes, deleteModal,
                newModal, store, shapePanelOpen, file, last, drag, sel, jobs,
                evt, call>>

\* init up to and including its call of resetZoom
InitResetZoom ==
    /\ zoom.pc = "resetZoom"
    /\ StartupCount
    /\ zoom' = [resetZoom(zoom) EXCEPT !.pc = "restoreAppState"]
    /\ ZoomFrame

\* the rest of init: restoreAppState and migrateExistingConnections
InitRestoreAppState ==
    LET restored == IF store.saved THEN RestoredScene(store.topology)
                    ELSE EmptyScene
        sc == migrateExistingConnections(restored)
    IN
    /\ zoom.pc = "restoreAppState"
    /\ StartupCount
    /\ SetScene(sc)
    /\ shapeIdCounter' = RestoredCounter(store, store.shapeCounter)
    /\ connectionIdCounter' = RestoredCounter(store, store.connectionCounter)
    /\ zoom' = [restoreZoom(zoom, store) EXCEPT !.pc = "ready"]
    /\ store' = IF migratedCount(restored) > 0
                THEN saveAppState(sc, shapeIdCounter', connectionIdCounter')
                ELSE store
    /\ last' = Step("reload")
    /\ UNCHANGED <<selectedShape, currentShape, overlaySourceShape,
                   isWaitingForTarget, selectedConnection, panelConnection,
                   isActive, selectedShapes, deleteModal, newModal,
                   shapePanelOpen, file, drag, sel, jobs, evt, call>>

\* handleKeyDown with Ctrl or Cmd: "+", "-" and "0"
KeyZoomIn ==
    /\ zoom.pc = "ready"
    /\ zoom.currentZoom < ZoomDefault + MaxZoomLevel
    /\ StartupCount
    /\ zoom' = zoomIn(zoom)
    /\ ZoomFrame
KeyZoomOut ==
    /\ zoom.pc = "ready"
    /\ zoom.currentZoom > ZoomDefault - MaxZoomLevel
    /\ StartupCount
    /\ zoom' = zoomOut(zoom)
    /\ ZoomFrame
KeyResetZoom ==
    /\ zoom.pc = "ready"
    /\ StartupCount
    /\ zoom' = resetZoom(zoom)
    /\ ZoomFrame

\* the user leaves the page and opens it again: the document is gone, the
\* store stays
LoadPage ==
    /\ zoom.pc = "ready"
    /\ StartupCount
    /\ SetScene(EmptyScene)
    /\ shapeIdCounter' = 0
    /\ connectionIdCounter' = 0
    /\ zoom' = Loading(zoom.saved)
    /\ last' = Step("init")
    /\ UNCHANGED <<selectedShape, currentShape, overlaySourceShape,
                   isWaitingForTarget, selectedConnection, panelConnection,
                   isActive, selectedShapes, deleteModal, newModal, store,
                   shapePanelOpen, file, drag, sel, jobs, evt, call>>

StartupNext ==
    \/ InitResetZoom
    \/ InitRestoreAppState
    \/ KeyZoomIn
    \/ KeyZoomOut
    \/ KeyResetZoom
    \/ LoadPage

StartupSpec == StartupInit /\ [][StartupNext]_vars

\* init ends on a page whose store held a zoom when the page began to load
InitEndsWithPersistedZoom ==
    zoom.pc # "ready" /\ zoom'.pc = "ready" /\ zoom.previous # <<>>

\* C38: when init ends, the zoom in effect is the zoom the previous session
\* left in the store
C38_StartupRestoresZoom ==
    [][InitEndsWithPersistedZoom
          => zoom'.currentZoom = zoom.previous[1]]_vars


\* ---------------------------------------------- restoring composite icons
\* the ids of the composite icons a persisted document holds without markup
EmptyIcons(topology) ==
    {topology.shapes[k].id : k \in {j \in 1..Len(topology.shapes) :
        /\ topology.shapes[j].tagName = "g"
        /\ IsCiscoType(topology.shapes[j].shapeType)
        /\ topology.shapes[j].innerHTML = <<>>}}
\* the document the step restores, if it restores one
RestoredDocument ==
    IF last'.op = "import" THEN file
    ELSE IF last'.op = "reload" /\ store.saved THEN store.topology
    ELSE NoTopology

\* C32: a composite icon persisted without markup has content again once
\* the document is restored, from the store or from an imported file
C32_EmptyIconRegenerated ==
    [][\A i \in 1..Len(shapes') :
          shapes'[i].id \in EmptyIcons(RestoredDocument)
              => shapes'[i].inner # <<>>]_vars


\* --------------------------------------------------- import of a bad file
ImportLeavesAll ==
    last'.op = "importInvalid"
        => (CurrentScene' = CurrentScene /\ store' = store)

\* C37: the import of a file that holds no valid document changes neither
\* the scene nor the persisted state
C37_InvalidImportChangesNothing == [][ImportLeavesAll]_vars


\* ------------------------------------------- the label of a moved shape
\* the first shape of a connected pair of rects with a sibling label at the
\* place its position setting gives
LabelledPair(position) ==
    LET Placed(sc) ==
            LET el == sc.shapes[1]
                place == SiblingLabelPlace(position, el.x, el.y,
                                           RectWidth, RectHeight)
            IN  Scene(sc.shapes,
                      <<[sc.shapeLabels[1] EXCEPT !.position = position,
                                                  !.x = place[1],
                                                  !.y = place[2]]>>,
                      sc.conns, sc.labels)
        Labelled(pair) == updateShapeLabel(pair, pair.shapes[1], "a")
    IN  CHOOSE r \in {Placed(sc) : sc \in {Labelled(pair) :
                          pair \in {ConnectedPair("rect")}}} : TRUE

MoveInit ==
    /\ \E position \in LabelPositions :
          \E sc \in {LabelledPair(position)} :
              /\ shapes = sc.shapes /\ shapeLabels = sc.shapeLabels
              /\ conns = sc.conns /\ labels = sc.labels
              /\ store = saveAppState(sc, 2, 1)
    /\ shapeIdCounter = 2
    /\ connectionIdCounter = 1
    /\ file = NoTopology
    /\ FreshPage
    /\ call = NoCall

MoveNext ==
    \/ \E i \in 1..Len(shapes) : ShapeMouseDown(i)
    \/ \E p \in BackgroundPoints : CanvasMouseDown(p)
    \/ \E p \in Points : MouseMove(p)
    \/ \E inside \in BOOLEAN : MouseUp(inside)
    \/ RunJob
    \/ (steps < MaxPointerSteps /\ ToggleSelectionMode)

MoveSpec == MoveInit /\ [][MoveNext]_vars

\* the sibling label of the k-th shape after the step is where its position
\* setting puts it for the shape's new bounds
LabelInPlace(k) ==
    LET el == shapes'[k]
        i == SiblingLabelIndex(shapeLabels', el)
        b == getShapeBounds(el)
    IN  i # 0 => <<shapeLabels'[i].x, shapeLabels'[i].y>>
                    = SiblingLabelPlace(shapeLabels'[i].position, b.x, b.y,
                                        b.width, b.height)

\* C34: after a step that moves a shape, by a drag of the shape or of the
\* group it is selected in, the label the shape owns is at the place its
\* position setting gives relative to the shape's new bounds
C34_LabelFollowsShape ==
    [][\A k \in 1..Len(shapes) : Translated(k) => LabelInPlace(k)]_vars

====
